---- MODULE Spec2Model ----
(***************************************************************************)
(* BioSim: the yearly stepping engine of the island ecosystem.             *)
(*                                                                         *)
(*   animal_class.py     Animal / Herbivore / Carnivore                    *)
(*   geography_class.py  Geography / Lowland / Highland / Desert / Water   *)
(*   functions.py        create_island                                     *)
(*   simulation.py       BioSim (add_population, simulate)                 *)
(*                                                                         *)
(* Python floats are modelled in fixed point: a real r is the integer      *)
(* r * Scale.  Ages, counts and coordinates are plain integers.  Python    *)
(* objects are modelled by a heap (animals: id -> attributes); the lists   *)
(* of a cell hold ids, so that aliasing between lists is expressible.      *)
(***************************************************************************)
EXTENDS Integers, Sequences, FiniteSets, TLC

\* ------------------------------------------------------------------------
\* Bounds of the model
\* ------------------------------------------------------------------------
\* objects of class Animal created in one run (inserted or born)
MaxAnimals == 3
\* years simulated in one run (sum of the num_years of all simulate calls)
MaxYears == 1

\* ------------------------------------------------------------------------
\* Fixed-point arithmetic
\* ------------------------------------------------------------------------
Scale == 1000

FMul(a, b) == (a * b) \div Scale

FDiv(a, b) == (a * Scale) \div b

Min(a, b) == IF a <= b THEN a ELSE b

\* 1 / (1 + e ** k) for integer k, times Scale, rounded
SigmoidTable(k) ==
    CASE k <= -8 -> 1000
      [] k = -7 -> 999
      [] k = -6 -> 998
      [] k = -5 -> 993
      [] k = -4 -> 982
      [] k = -3 -> 953
      [] k = -2 -> 881
      [] k = -1 -> 731
      [] k = 0 -> 500
      [] k = 1 -> 269
      [] k = 2 -> 119
      [] k = 3 -> 47
      [] k = 4 -> 18
      [] k = 5 -> 7
      [] k = 6 -> 2
      [] k = 7 -> 1
      [] OTHER -> 0

\* 1 / (1 + e ** z) for a fixed-point z: the table, interpolated linearly
Sigmoid(z) ==
    LET k == z \div Scale
        r == z % Scale
        lo == SigmoidTable(k)
        hi == SigmoidTable(k + 1)
    IN  lo - ((lo - hi) * r) \div Scale

\* ------------------------------------------------------------------------
\* random: the draws the generator can return
\* ------------------------------------------------------------------------
\* random.random(): a float in [0, 1)
Draws == {0, 999}

\* standard normal deviates behind random.gauss (|z| < 8.57 is producible)
GaussDraws == {-6000, -5333, 0}

\* random.gauss(mu, sigma)
gauss(mu, sigma, z) == mu + FMul(z, sigma)

\* None where a list is expected (the lists of a Water cell): a value that
\* is no list of animals, since no animal has id -1
NoneList == <<-1>>

\* None where a number is expected (the default weight of a constructor):
\* an optional number is << >> or <<n>>
None == << >>

\* ------------------------------------------------------------------------
\* animal_class.py
\* ------------------------------------------------------------------------
\* Animal.__init__: the common attributes
AnimalAttrs(age) ==
    [age |-> age, weight |-> 0, fitness |-> 0,
     a_half |-> 40000, zeta |-> 3500]

\* Animal.calculate_fitness
calculate_fitness(self) ==
    IF self.weight <= 0
    THEN [self EXCEPT !.fitness = 0]
    ELSE [self EXCEPT !.fitness =
            FMul(Sigmoid(FMul(self.phi_age, self.age * Scale - self.a_half)),
                 Sigmoid(FMul(-self.phi_weight, self.weight - self.w_half)))]

\* Animal.update_age
update_age(self) ==
    calculate_fitness([self EXCEPT !.age = self.age + 1,
                                   !.weight = self.weight - FMul(self.weight, self.eta)])

\* Animal.migration_prob
migration_prob(self) == FMul(self.mu, self.fitness)

\* weight_reduction that leaves the mother's weight as it is
weight_reduction_NoLoss(self, baby_weight) ==
    calculate_fitness(self)

\* Animal.weight_reduction
weight_reduction(self, baby_weight) ==
    calculate_fitness([self EXCEPT !.weight = self.weight - baby_weight])

\* dies without the test of weight == 0
dies_NoWeightCheck(self, draw) ==
    LET death_prob == FMul(self.omega, Scale - self.fitness)
    IN  death_prob > draw

\* Animal.dies; draw is consulted only when weight /= 0
dies(self, draw) ==
    LET death_prob == FMul(self.omega, Scale - self.fitness)
    IN  self.weight = 0 \/ death_prob > draw

\* Animal.set_animal_params: setattr for every key of params
set_animal_params(self, params) == params @@ self

\* Herbivore.__init__; weight = None draws the birth weight with deviate z
Herbivore(age, weight, z) ==
    LET base == AnimalAttrs(age) @@
                [species |-> "Herbivore",
                 sigma_birth |-> 1500, w_birth |-> 8000, beta |-> 900,
                 eta |-> 50, phi_age |-> 600, w_half |-> 10000,
                 phi_weight |-> 100, mu |-> 250, gamma |-> 200, xi |-> 1200,
                 omega |-> 400, F |-> 10000]
        w == IF weight = None THEN gauss(base.w_birth, base.sigma_birth, z)
             ELSE weight[1]
    IN  calculate_fitness([base EXCEPT !.weight = w])

\* Carnivore.__init__
Carnivore(age, weight, z) ==
    LET base == AnimalAttrs(age) @@
                [species |-> "Carnivore",
                 sigma_birth |-> 1000, w_birth |-> 6000, beta |-> 750,
                 eta |-> 125, phi_age |-> 300, w_half |-> 4000,
                 phi_weight |-> 400, mu |-> 400, gamma |-> 800, xi |-> 1100,
                 omega |-> 800, F |-> 50000, DeltaPhiMax |-> 10000]
        w == IF weight = None THEN gauss(base.w_birth, base.sigma_birth, z)
             ELSE weight[1]
    IN  calculate_fitness([base EXCEPT !.weight = w])

\* feed that takes the full intake F whatever fodder is available
feed_FullIntake(self, available_fodder) ==
    [self |-> calculate_fitness(
                [self EXCEPT !.weight = self.weight + FMul(self.beta, self.F)]),
     eaten |-> self.F]

\* feed without the call of calculate_fitness
feed_StaleFitness(self, available_fodder) ==
    IF available_fodder >= self.F
    THEN [self |-> [self EXCEPT !.weight = self.weight + FMul(self.beta, self.F)],
          eaten |-> self.F]
    ELSE [self |-> [self EXCEPT !.weight = self.weight + FMul(self.beta, available_fodder)],
          eaten |-> available_fodder]

\* Herbivore.feed: the animal after feeding and the amount it ate
feed(self, available_fodder) ==
    IF available_fodder >= self.F
    THEN [self |-> calculate_fitness(
                     [self EXCEPT !.weight = self.weight + FMul(self.beta, self.F)]),
          eaten |-> self.F]
    ELSE [self |-> calculate_fitness(
                     [self EXCEPT !.weight = self.weight + FMul(self.beta, available_fodder)]),
          eaten |-> available_fodder]

\* gives_birth without the test of the parent's weight against
\* zeta * (w_birth + sigma_birth)
Herbivore_gives_birth_NoWeightGate(self, N, u, z) ==
    LET birth_prob == Min(Scale, FMul(self.gamma, self.fitness) * (N - 1))
    IN  IF birth_prob > u
        THEN LET baby_herbivore == Herbivore(0, None, z)
             IN  IF baby_herbivore.weight <= self.weight
                 THEN [self |-> weight_reduction(self, baby_herbivore.weight),
                       baby |-> <<baby_herbivore>>]
                 ELSE [self |-> self, baby |-> << >>]
        ELSE [self |-> self, baby |-> << >>]

\* Herbivore.gives_birth: u is the draw of random.random(), z the deviate of
\* the newborn's random.gauss; baby is None (<< >>) or the newborn
Herbivore_gives_birth(self, N, u, z) ==
    LET birth_prob == Min(Scale, FMul(self.gamma, self.fitness) * (N - 1))
    IN  IF birth_prob > u /\ self.weight >= FMul(self.zeta, self.w_birth + self.sigma_birth)
        THEN LET baby_herbivore == Herbivore(0, None, z)
             IN  IF baby_herbivore.weight <= self.weight
                 THEN [self |-> weight_reduction(self, baby_herbivore.weight),
                       baby |-> <<baby_herbivore>>]
                 ELSE [self |-> self, baby |-> << >>]
        ELSE [self |-> self, baby |-> << >>]

\* Carnivore.gives_birth
Carnivore_gives_birth(self, N, u, z) ==
    LET birth_prob == Min(Scale, FMul(self.gamma, self.fitness) * (N - 1))
    IN  IF birth_prob > u /\ self.weight >= FMul(self.zeta, self.w_birth + self.sigma_birth)
        THEN LET baby_carnivore == Carnivore(0, None, z)
             IN  IF baby_carnivore.weight <= self.weight
                 THEN [self |-> weight_reduction(self, baby_carnivore.weight),
                       baby |-> <<baby_carnivore>>]
                 ELSE [self |-> self, baby |-> << >>]
        ELSE [self |-> self, baby |-> << >>]

\* a kill without the call of calculate_fitness
Kill_StaleFitness(self, eaten_amount, herbivore) ==
    LET eaten == Min(self.F - eaten_amount, herbivore.weight)
    IN  [self |-> [self EXCEPT !.weight = self.weight + FMul(self.beta, eaten)],
         eaten_amount |-> eaten_amount + eaten]

\* Carnivore.hunt, lines 233-236 and 239-242: the carnivore after a kill
Kill(self, eaten_amount, herbivore) ==
    LET eaten == Min(self.F - eaten_amount, herbivore.weight)
    IN  [self |-> calculate_fitness(
                    [self EXCEPT !.weight = self.weight + FMul(self.beta, eaten)]),
         eaten_amount |-> eaten_amount + eaten]

\* Carnivore.hunt, the loop from the i-th herbivore on.  heap maps the ids in
\* herbivores to their attributes, draws[i] is the draw of random.random()
\* made for the i-th herbivore if one is made.  Besides the list returned
\* the result holds the carnivore and the local eaten_amount at the return.
\* The test of the draw against the quotient is made without rounding the
\* quotient: DeltaPhiMax is positive on this branch.
RECURSIVE hunt_loop(_, _, _, _, _, _, _)
hunt_loop(self, herbivores, heap, draws, i, eaten_amount, dead_herbivores) ==
    IF i > Len(herbivores)
    THEN [self |-> self, dead_herbivores |-> dead_herbivores,
          eaten_amount |-> eaten_amount]
    ELSE IF eaten_amount >= self.F
    THEN [self |-> self, dead_herbivores |-> dead_herbivores,
          eaten_amount |-> eaten_amount]
    ELSE LET herbivore == heap[herbivores[i]]
             k == Kill(self, eaten_amount, herbivore)
             killed == hunt_loop(k.self, herbivores, heap, draws, i + 1,
                                 k.eaten_amount,
                                 Append(dead_herbivores, herbivores[i]))
             spared == hunt_loop(self, herbivores, heap, draws, i + 1,
                                 eaten_amount, dead_herbivores)
         IN  IF self.fitness <= herbivore.fitness
             THEN spared
             ELSE IF self.fitness - herbivore.fitness < self.DeltaPhiMax
             THEN IF draws[i] * self.DeltaPhiMax <
                         (self.fitness - herbivore.fitness) * Scale
                  THEN killed
                  ELSE spared
             ELSE killed

\* Carnivore.hunt
hunt(self, herbivores, heap, draws) ==
    hunt_loop(self, herbivores, heap, draws, 1, 0, << >>)

\* ------------------------------------------------------------------------
\* geography_class.py
\* ------------------------------------------------------------------------
\* Geography.__init__
Geography ==
    [movable |-> TRUE, fodder |-> 0,
     herbivores |-> << >>, carnivores |-> << >>,
     migrated_herbivores |-> << >>, migrated_carnivores |-> << >>]

\* Lowland.__init__
Lowland == Geography @@ [geography |-> "Lowland", f_max |-> 800000]

\* Highland.__init__
Highland == Geography @@ [geography |-> "Highland", f_max |-> 500000]

\* Desert (no f_max attribute)
Desert == Geography @@ [geography |-> "Desert"]

\* Water.__init__
Water ==
    [geography |-> "Water", movable |-> FALSE, fodder |-> None,
     herbivores |-> NoneList, carnivores |-> NoneList,
     migrated_herbivores |-> NoneList, migrated_carnivores |-> NoneList]

\* Lowland.grow_fodder, Highland.grow_fodder, Desert.grow_fodder
grow_fodder(self) ==
    IF self.geography = "Desert" THEN self
    ELSE [self EXCEPT !.fodder = self.f_max]

\* list.remove(x): the list without the first occurrence of x
RECURSIVE ListRemove(_, _)
ListRemove(list, x) ==
    IF list = << >> THEN << >>
    ELSE IF Head(list) = x THEN Tail(list)
    ELSE <<Head(list)>> \o ListRemove(Tail(list), x)

\* x in list
InList(x, list) == \E i \in 1..Len(list) : list[i] = x

\* the elements of a list
Elems(list) == {list[i] : i \in 1..Len(list)}

\* the heap without the objects in ids (no list refers to them any more)
Free(heap, ids) == [id \in (DOMAIN heap) \ ids |-> heap[id]]

\* list.sort(key=fitness, reverse=True) places id in the sorted prefix:
\* behind every element whose fitness is not lower (the sort is stable)
RECURSIVE SortInsert(_, _, _)
SortInsert(sorted, id, heap) ==
    IF sorted = << >> THEN <<id>>
    ELSE IF heap[Head(sorted)].fitness >= heap[id].fitness
    THEN <<Head(sorted)>> \o SortInsert(Tail(sorted), id, heap)
    ELSE <<id>> \o sorted

\* Geography.sort_herbivores_by_fitness
RECURSIVE sort_herbivores_by_fitness(_, _)
sort_herbivores_by_fitness(herbivores, heap) ==
    IF herbivores = << >> THEN << >>
    ELSE LET n == Len(herbivores)
         IN  SortInsert(sort_herbivores_by_fitness(SubSeq(herbivores, 1, n - 1), heap),
                        herbivores[n], heap)

\* Geography.fodder_eaten
fodder_eaten(self, fodder_need) ==
    IF self.fodder - fodder_need < 0
    THEN [self EXCEPT !.fodder = 0]
    ELSE [self EXCEPT !.fodder = self.fodder - fodder_need]

\* herbivores_eaten that removes the first of the dead herbivores alone
herbivores_eaten_FirstOnly(self, dead_herbivores) ==
    IF dead_herbivores = << >> THEN self
    ELSE [self EXCEPT !.herbivores = ListRemove(self.herbivores, Head(dead_herbivores))]

\* Geography.herbivores_eaten
RECURSIVE herbivores_eaten(_, _)
herbivores_eaten(self, dead_herbivores) ==
    IF dead_herbivores = << >> THEN self
    ELSE herbivores_eaten(
           [self EXCEPT !.herbivores = ListRemove(self.herbivores, Head(dead_herbivores))],
           Tail(dead_herbivores))

\* migration_finished that places the arrivals ahead of the residents
migration_finished_ArrivalsFirst(self) ==
    [self EXCEPT !.herbivores = self.migrated_herbivores \o self.herbivores,
                 !.migrated_herbivores = << >>,
                 !.carnivores = self.migrated_carnivores \o self.carnivores,
                 !.migrated_carnivores = << >>]

\* migration_finished that clears the transit lists without extending the
\* resident lists
migration_finished_ClearOnly(self) ==
    [self EXCEPT !.migrated_herbivores = << >>,
                 !.migrated_carnivores = << >>]

\* Geography.migration_finished
migration_finished(self) ==
    [self EXCEPT !.herbivores = self.herbivores \o self.migrated_herbivores,
                 !.migrated_herbivores = << >>,
                 !.carnivores = self.carnivores \o self.migrated_carnivores,
                 !.migrated_carnivores = << >>]

\* Geography.animal_aging: the heap after update_age was called on every
\* element of the chained lists
RECURSIVE aging_loop(_, _)
aging_loop(chain, heap) ==
    IF chain = << >> THEN heap
    ELSE aging_loop(Tail(chain),
                    [heap EXCEPT ![Head(chain)] = update_age(heap[Head(chain)])])

\* animal_aging that leaves the carnivores out of the chain
animal_aging_HerbivoresOnly(self, heap) == aging_loop(self.herbivores, heap)

animal_aging(self, heap) == aging_loop(self.herbivores \o self.carnivores, heap)

\* Geography.get_weight_lists
get_weight_lists(self, heap) ==
    [herbivore_weights |-> [i \in 1..Len(self.herbivores) |-> heap[self.herbivores[i]].weight],
     carnivore_weights |-> [i \in 1..Len(self.carnivores) |-> heap[self.carnivores[i]].weight]]

\* Geography.get_fitness_lists
get_fitness_lists(self, heap) ==
    [herbivore_fitness |-> [i \in 1..Len(self.herbivores) |-> heap[self.herbivores[i]].fitness],
     carnivore_fitness |-> [i \in 1..Len(self.carnivores) |-> heap[self.carnivores[i]].fitness]]

\* Geography.get_age_lists
get_age_lists(self, heap) ==
    [herbivore_age |-> [i \in 1..Len(self.herbivores) |-> heap[self.herbivores[i]].age],
     carnivore_age |-> [i \in 1..Len(self.carnivores) |-> heap[self.carnivores[i]].age]]

\* Geography.insert_population, from the i-th description on.  nid is the
\* number of Animal objects created so far; the next object gets id nid + 1.
\* On a Water cell self.herbivores.append fails (AttributeError).
RECURSIVE insert_population_loop(_, _, _, _, _)
insert_population_loop(self, animals, i, heap, nid) ==
    IF i > Len(animals)
    THEN [self |-> self, heap |-> heap, nid |-> nid, raised |-> "None"]
    ELSE LET _animal == animals[i]
         IN  IF _animal.species = "Herbivore"
             THEN IF self.herbivores = NoneList
                  THEN [self |-> self, heap |-> heap, nid |-> nid,
                        raised |-> "AttributeError"]
                  ELSE insert_population_loop(
                         [self EXCEPT !.herbivores = Append(@, nid + 1)],
                         animals, i + 1,
                         (nid + 1 :> Herbivore(_animal.age, <<_animal.weight>>, 0)) @@ heap,
                         nid + 1)
             ELSE IF _animal.species = "Carnivore"
             THEN IF self.carnivores = NoneList
                  THEN [self |-> self, heap |-> heap, nid |-> nid,
                        raised |-> "AttributeError"]
                  ELSE insert_population_loop(
                         [self EXCEPT !.carnivores = Append(@, nid + 1)],
                         animals, i + 1,
                         (nid + 1 :> Carnivore(_animal.age, <<_animal.weight>>, 0)) @@ heap,
                         nid + 1)
             ELSE insert_population_loop(self, animals, i + 1, heap, nid)

\* insert_population that stops after the first description
insert_population_FirstOnly(self, animals, heap, nid) ==
    insert_population_loop(self, SubSeq(animals, 1, Min(1, Len(animals))), 1, heap, nid)

\* Geography.insert_population
insert_population(self, animals, heap, nid) ==
    insert_population_loop(self, animals, 1, heap, nid)

\* simulation.py lines 170-173: the herbivores feed in list order
RECURSIVE feed_loop(_, _, _, _)
feed_loop(self, heap, herbivores, i) ==
    IF i > Len(herbivores) THEN [self |-> self, heap |-> heap]
    ELSE LET r == feed(heap[herbivores[i]], self.fodder)
         IN  feed_loop(fodder_eaten(self, r.eaten),
                       [heap EXCEPT ![herbivores[i]] = r.self],
                       herbivores, i + 1)

\* the filter that lets every resident through, whatever its age
Filtered_Everyone(list, heap) == list

\* filter(lambda a: a.age != 0, list)
Filtered(list, heap) == SelectSeq(list, LAMBDA id : heap[id].age /= 0)

\* the list of coordinates with the cell itself in the place of its last
\* neighbour
Adjacent_WithSelf(x, y) == << <<x + 1, y>>, <<x - 1, y>>, <<x, y + 1>>, <<x, y>> >>

\* the list of adjacent coordinates that random.choice draws from (line 148)
Adjacent(x, y) == << <<x + 1, y>>, <<x - 1, y>>, <<x, y + 1>>, <<x, y - 1>> >>

\* the move without the removal from the list of the cell left
Migrate_NoRemove(island, current_coordinate, new_coordinate, _animal) ==
    IF InList(_animal, island[current_coordinate].herbivores)
    THEN [island EXCEPT
            ![new_coordinate].migrated_herbivores = Append(@, _animal)]
    ELSE IF InList(_animal, island[current_coordinate].carnivores)
    THEN [island EXCEPT
            ![new_coordinate].migrated_carnivores = Append(@, _animal)]
    ELSE island

\* the move straight into the resident lists of the new cell
Migrate_IntoResidents(island, current_coordinate, new_coordinate, _animal) ==
    IF InList(_animal, island[current_coordinate].herbivores)
    THEN [island EXCEPT
            ![new_coordinate].herbivores = Append(@, _animal),
            ![current_coordinate].herbivores = ListRemove(@, _animal)]
    ELSE IF InList(_animal, island[current_coordinate].carnivores)
    THEN [island EXCEPT
            ![new_coordinate].carnivores = Append(@, _animal),
            ![current_coordinate].carnivores = ListRemove(@, _animal)]
    ELSE island

\* the move with one list per species for residents and arrivals alike:
\* herbivores join the herbivores of the new cell
Migrate_HerbivoresSettle(island, current_coordinate, new_coordinate, _animal) ==
    IF InList(_animal, island[current_coordinate].herbivores)
    THEN [island EXCEPT
            ![new_coordinate].herbivores = Append(@, _animal),
            ![current_coordinate].herbivores = ListRemove(@, _animal)]
    ELSE IF InList(_animal, island[current_coordinate].carnivores)
    THEN [island EXCEPT
            ![new_coordinate].migrated_carnivores = Append(@, _animal),
            ![current_coordinate].carnivores = ListRemove(@, _animal)]
    ELSE island

\* Geography.animal_migration, lines 152-157: _animal moves to new_coordinate
Migrate(island, current_coordinate, new_coordinate, _animal) ==
    IF InList(_animal, island[current_coordinate].herbivores)
    THEN [island EXCEPT
            ![new_coordinate].migrated_herbivores = Append(@, _animal),
            ![current_coordinate].herbivores = ListRemove(@, _animal)]
    ELSE IF InList(_animal, island[current_coordinate].carnivores)
    THEN [island EXCEPT
            ![new_coordinate].migrated_carnivores = Append(@, _animal),
            ![current_coordinate].carnivores = ListRemove(@, _animal)]
    ELSE island

\* the test of line 150 without the draw
Moves_AnyDraw(island, new_coordinate, _animal, draw) ==
    island[new_coordinate].movable

\* the test of line 150 without island[new_coordinate].movable
Moves_AnyCell(island, new_coordinate, _animal, draw) ==
    migration_prob(_animal) > draw

\* Geography.animal_migration, line 150: does _animal move to new_coordinate
Moves(island, new_coordinate, _animal, draw) ==
    island[new_coordinate].movable /\ migration_prob(_animal) > draw

\* Geography.animal_death, lines 181-185
RECURSIVE death_loop(_, _)
death_loop(self, dead_animals) ==
    IF dead_animals = << >> THEN self
    ELSE LET _dead_animal == Head(dead_animals)
         IN  death_loop(
               IF InList(_dead_animal, self.herbivores)
               THEN [self EXCEPT !.herbivores = ListRemove(@, _dead_animal)]
               ELSE IF InList(_dead_animal, self.carnivores)
               THEN [self EXCEPT !.carnivores = ListRemove(@, _dead_animal)]
               ELSE self,
               Tail(dead_animals))

\* the death checks of the herbivores alone
DeadAnimals_HerbivoresOnly(self, heap, draws) ==
    LET chain == self.herbivores
        idx == SelectSeq([i \in 1..Len(chain) |-> i],
                         LAMBDA i : dies(heap[chain[i]], draws[i]))
    IN  [j \in 1..Len(idx) |-> chain[idx[j]]]

\* Geography.animal_death, lines 178-179; draws[i] is the draw for the i-th
\* animal of the chained lists
DeadAnimals(self, heap, draws) ==
    LET chain == self.herbivores \o self.carnivores
        idx == SelectSeq([i \in 1..Len(chain) |-> i],
                         LAMBDA i : dies(heap[chain[i]], draws[i]))
    IN  [j \in 1..Len(idx) |-> chain[idx[j]]]

\* Geography.animal_death
animal_death(self, heap, draws) == death_loop(self, DeadAnimals(self, heap, draws))

\* ------------------------------------------------------------------------
\* functions.py
\* ------------------------------------------------------------------------
\* the geography classes by map letter
geography_types(letter) ==
    CASE letter = "L" -> Lowland
      [] letter = "H" -> Highland
      [] letter = "D" -> Desert
      [] letter = "W" -> Water

\* the coordinates create_island gives a geography: one per letter
Coordinates(lines) ==
    UNION {{<<x, y>> : y \in 1..Len(lines[x])} : x \in 1..Len(lines)}

\* create_island without the check of the line length (lines 30-32)
create_island_NoLengthCheck(lines) ==
    LET valid_letters == {"L", "H", "D", "W"}
        invalid_border == {"L", "H", "D"}
        Bad(x, y) ==
            LET line == lines[x]
                letter == line[y]
            IN  \/ letter \notin valid_letters
                \/ (x = 1 /\ letter \in invalid_border)
                \/ (y = 1 /\ letter \in invalid_border)
                \/ (x = Len(lines) /\ letter \in invalid_border)
                \/ (y = Len(line) /\ letter \in invalid_border)
        raises == \E x \in 1..Len(lines) : \E y \in 1..Len(lines[x]) : Bad(x, y)
    IN  IF raises
        THEN [raised |-> "ValueError", island |-> << >>]
        ELSE [raised |-> "None",
              island |-> [c \in Coordinates(lines) |-> geography_types(lines[c[1]][c[2]])]]

\* create_island without the check of the bottom and right border (lines
\* 46-48)
create_island_TopLeftBorderOnly(lines) ==
    LET valid_letters == {"L", "H", "D", "W"}
        invalid_border == {"L", "H", "D"}
        exp_line_length == Len(lines[1])
        Bad(x, y) ==
            LET line == lines[x]
                letter == line[y]
            IN  \/ letter \notin valid_letters
                \/ (x = 1 /\ letter \in invalid_border)
                \/ (y = 1 /\ letter \in invalid_border)
        raises ==
            \E x \in 1..Len(lines) :
                \/ Len(lines[x]) /= exp_line_length
                \/ \E y \in 1..Len(lines[x]) : Bad(x, y)
    IN  IF raises
        THEN [raised |-> "ValueError", island |-> << >>]
        ELSE [raised |-> "None",
              island |-> [c \in Coordinates(lines) |-> geography_types(lines[c[1]][c[2]])]]

\* create_island: lines is island_map.split(), each line a sequence of
\* letters.  Any failed check raises ValueError.
create_island(lines) ==
    LET valid_letters == {"L", "H", "D", "W"}
        invalid_border == {"L", "H", "D"}
        exp_line_length == Len(lines[1])
        Bad(x, y) ==
            LET line == lines[x]
                letter == line[y]
            IN  \/ letter \notin valid_letters
                \/ (x = 1 /\ letter \in invalid_border)
                \/ (y = 1 /\ letter \in invalid_border)
                \/ (x = Len(lines) /\ letter \in invalid_border)
                \/ (y = Len(line) /\ letter \in invalid_border)
        raises ==
            \E x \in 1..Len(lines) :
                \/ Len(lines[x]) /= exp_line_length
                \/ \E y \in 1..Len(lines[x]) : Bad(x, y)
    IN  IF raises
        THEN [raised |-> "ValueError", island |-> << >>]
        ELSE [raised |-> "None",
              island |-> [c \in Coordinates(lines) |-> geography_types(lines[c[1]][c[2]])]]

\* ------------------------------------------------------------------------
\* simulation.py: BioSim
\* ------------------------------------------------------------------------
\* the island_map of the run, split into lines
IslandMap ==
    << <<"W", "W", "W", "W">>,
       <<"W", "L", "H", "W">>,
       <<"W", "W", "W", "W">> >>

\* a population of one animal at one location
Population(loc, species, age, weight) ==
    <<[loc |-> loc, pop |-> <<[species |-> species, age |-> age, weight |-> weight]>>]>>

\* the populations add_population is called with, in the order of the calls
\* ahead of the first call of simulate
Populations ==
    << Population(<<2, 2>>, "Herbivore", 5, 40000),
       Population(<<2, 2>>, "Carnivore", 5, 20000),
       Population(<<2, 3>>, "Herbivore", 5, 40000),
       Population(<<1, 1>>, "Herbivore", 5, 40000),
       Population(<<2, 2>>, "Rabbit", 5, 20000),
       Population(<<1, 1>>, "Rabbit", 5, 20000) >>

VARIABLES
    island,        \* self.island: coordinate -> geography object
    animals,       \* the Animal objects alive: id -> attributes
    next_id,       \* number of Animal objects created so far
    current_year,  \* self.current_year
    years_left,    \* iterations left of the loop over range(num_years)
    pc,            \* position of simulate; "idle" between calls
    cell,          \* index of the loop over self.island.items()
    loop,          \* the running loop over animals: its list, its index i
                   \* (and N in procreation)
    exception,     \* the exception the last call raised, or "None"
    added,         \* the caller: index in Populations of the population it
                   \* added last since simulate returned, 0 if none
    log,           \* history: the calls completed in the current year
    hist,          \* history: per animal, its age when the year began (or
                   \* when it was created), its migrations this year and
                   \* the cells it has left, each with the year it left in
    island_map,    \* self.island_map, split into lines
    stats,         \* the lists simulate collects for the year (herb_pop,
                   \* carn_pop, herb_weights, ...)
    vis_years,     \* self.vis_years
    img_years,     \* self.img_years
    overrides      \* history: per landscape code the f_max passed to
                   \* set_landscape_parameters last, per species the
                   \* parameters passed to set_animal_parameters so far

vars == <<island, animals, next_id, current_year, years_left, pc, cell, loop,
          exception, added, log, hist, island_map, stats, vis_years, img_years,
          overrides>>

\* self.island.items(): the coordinates in insertion (row-major) order
Width == Len(IslandMap[1])

NumCells == Len(IslandMap) * Width

Coordinate(i) == <<((i - 1) \div Width) + 1, ((i - 1) % Width) + 1>>

NoLoop == [items |-> << >>, i |-> 0, N |-> 0]

\* BioSim.simulate, lines 122-129: the lists of the year, empty
NoStats ==
    [herb_pop |-> << >>, carn_pop |-> << >>,
     herb_weights |-> << >>, carn_weights |-> << >>,
     herb_fitness |-> << >>, carn_fitness |-> << >>,
     herb_age |-> << >>, carn_age |-> << >>]

\* no call of set_landscape_parameters or set_animal_parameters so far
NoOverrides ==
    [L |-> None, H |-> None, Herbivore |-> << >>, Carnivore |-> << >>]

\* BioSim.__init__ with ini_pop = [] and vis_years = 0 (no graphics; img_years
\* is None and takes the value of vis_years)
Init ==
    /\ island = create_island(IslandMap).island
    /\ animals = << >>
    /\ next_id = 0
    /\ current_year = 0
    /\ years_left = 0
    /\ pc = "idle"
    /\ cell = 0
    /\ loop = NoLoop
    /\ exception = "None"
    /\ added = 0
    /\ log = << >>
    /\ hist = << >>
    /\ island_map = IslandMap
    /\ stats = NoStats
    /\ vis_years = 0
    /\ img_years = 0
    /\ overrides = NoOverrides

\* history of the objects of heap: those created by the step start theirs
NewHist(heap) ==
    [id \in DOMAIN heap |->
        IF id \in DOMAIN hist THEN hist[id]
        ELSE [age0 |-> heap[id].age, moves |-> 0, left |-> << >>]]

\* BioSim.add_population, from the i-th element of population on
RECURSIVE add_population_loop(_, _, _, _, _)
add_population_loop(isl, heap, nid, population, i) ==
    IF i > Len(population)
    THEN [island |-> isl, heap |-> heap, nid |-> nid, raised |-> "None"]
    ELSE LET element == population[i]
             r == insert_population(isl[element.loc], element.pop, heap, nid)
             isl1 == [isl EXCEPT ![element.loc] = r.self]
         IN  IF r.raised /= "None"
             THEN [island |-> isl1, heap |-> r.heap, nid |-> r.nid, raised |-> r.raised]
             ELSE add_population_loop(isl1, r.heap, r.nid, population, i + 1)

\* BioSim.add_population
add_population(isl, heap, nid, population) ==
    add_population_loop(isl, heap, nid, population, 1)

AddPopulation(k) ==
    /\ pc = "idle"
    /\ current_year = 0
    /\ k >= added
    /\ added' = k
    /\ LET population == Populations[k]
           r == add_population(island, animals, next_id, population)
       IN  /\ r.nid <= MaxAnimals
           /\ island' = r.island
           /\ animals' = r.heap
           /\ next_id' = r.nid
           /\ exception' = r.raised
           /\ hist' = NewHist(r.heap)
    /\ UNCHANGED <<current_year, years_left, pc, cell, loop, log>>
    /\ UNCHANGED <<island_map, stats, vis_years, img_years, overrides>>

\* BioSim.simulate: the call
Simulate(num_years) ==
    /\ pc = "idle"
    /\ current_year + num_years <= MaxYears
    /\ years_left' = num_years
    /\ pc' = "year"
    /\ exception' = "None"
    /\ added' = 0
    /\ UNCHANGED <<island, animals, next_id, current_year, cell, loop, log, hist>>
    /\ UNCHANGED <<island_map, stats, vis_years, img_years, overrides>>

\* the loops over self.island.items() (lines 142-152 and 190-191): the index
\* of the first cell from index i on whose body runs, 0 if there is none
RECURSIVE NextMovable(_)
NextMovable(i) ==
    IF i > NumCells THEN 0
    ELSE IF island[Coordinate(i)].movable THEN i
    ELSE NextMovable(i + 1)

\* the second loop without the merge: its body starts at animal_aging
Phase2From_AgingFirst(i) ==
    IF NextMovable(i) /= 0
    THEN [pc |-> "animal_aging", cell |-> NextMovable(i)]
    ELSE [pc |-> "end_of_year", cell |-> 0]

\* the second loop, from the cell of index i on
Phase2From(i) ==
    IF NextMovable(i) /= 0
    THEN [pc |-> "migration_finished", cell |-> NextMovable(i)]
    ELSE [pc |-> "end_of_year", cell |-> 0]

\* the first loop, from the cell of index i on
Phase1From(i) ==
    IF NextMovable(i) /= 0
    THEN [pc |-> "grow_fodder", cell |-> NextMovable(i)]
    ELSE Phase2From(1)

\* one loop over the cells: phase 2 of cell i follows its animal_migration
AfterMigration_SinglePass(i) == [pc |-> "migration_finished", cell |-> i]

\* where simulate continues after animal_migration of cell i (line 187)
AfterMigration(i) == Phase1From(i + 1)

\* where simulate continues after animal_death of cell i (line 198)
AfterDeath(i) == Phase2From(i + 1)

\* BioSim.simulate, lines 119-140: the head of the loop over the years
BeginYear ==
    /\ pc = "year"
    /\ IF years_left = 0
       THEN /\ pc' = "idle"
            /\ UNCHANGED <<current_year, cell, log, hist>>
       ELSE /\ current_year' = current_year + 1
            /\ pc' = Phase1From(1).pc
            /\ cell' = Phase1From(1).cell
            /\ UNCHANGED <<log, hist>>
    /\ UNCHANGED <<island, animals, next_id, years_left, loop, exception, added>>
    /\ UNCHANGED <<island_map, stats, vis_years, img_years, overrides>>

Logged(step) == Append(log, <<Coordinate(cell), step>>)

\* BioSim.simulate, lines 144-164: the head of the first loop's body for one
\* cell.  len(None) raises TypeError on a Water cell.
Statistics(st, geography, heap) ==
    LET counted ==
            IF geography.herbivores = NoneList \/ geography.carnivores = NoneList
            THEN [st EXCEPT !.herb_pop = Append(@, 0), !.carn_pop = Append(@, 0)]
            ELSE [st EXCEPT !.herb_pop = Append(@, Len(geography.herbivores)),
                            !.carn_pop = Append(@, Len(geography.carnivores))]
        w == get_weight_lists(geography, heap)
        f == get_fitness_lists(geography, heap)
        a == get_age_lists(geography, heap)
    IN  IF geography.movable
        THEN [counted EXCEPT !.herb_weights = @ \o w.herbivore_weights,
                             !.carn_weights = @ \o w.carnivore_weights,
                             !.herb_fitness = @ \o f.herbivore_fitness,
                             !.carn_fitness = @ \o f.carnivore_fitness,
                             !.herb_age = @ \o a.herbivore_age,
                             !.carn_age = @ \o a.carnivore_age]
        ELSE counted

\* the head of the body for the cells of index i..j, in order
RECURSIVE StatisticsFrom(_, _, _, _, _)
StatisticsFrom(st, isl, heap, i, j) ==
    IF i > j THEN st
    ELSE StatisticsFrom(Statistics(st, isl[Coordinate(i)], heap), isl, heap, i + 1, j)

\* BioSim.simulate, lines 142-167: the loop reaches the next passable cell
\* (the Water cells passed on the way only add 0 to herb_pop and carn_pop),
\* collects its statistics and grows its fodder
GrowFodder ==
    /\ pc = "grow_fodder"
    /\ stats' = StatisticsFrom(stats, island, animals, Len(stats.herb_pop) + 1, cell)
    /\ island' = [island EXCEPT ![Coordinate(cell)] = grow_fodder(@)]
    /\ pc' = "feed"
    /\ log' = Logged("grow_fodder")
    /\ UNCHANGED <<animals, next_id, current_year, years_left, cell, loop,
                   exception, hist, added>>
    /\ UNCHANGED <<island_map, vis_years, img_years, overrides>>

\* the feeding of the herbivores in the order of their list, unsorted
Feeding_InsertionOrder ==
    /\ pc = "feed"
    /\ LET c == Coordinate(cell)
           r == feed_loop(island[c], animals, island[c].herbivores, 1)
       IN  /\ island' = [island EXCEPT ![c] = r.self]
           /\ animals' = r.heap
    /\ pc' = "random_carnivore_order"
    /\ log' = Logged("feed")
    /\ UNCHANGED <<next_id, current_year, years_left, cell, loop, exception, hist, added>>
    /\ UNCHANGED <<island_map, stats, vis_years, img_years, overrides>>

\* BioSim.simulate, lines 169-173
Feeding ==
    /\ pc = "feed"
    /\ LET c == Coordinate(cell)
           sorted == [island[c] EXCEPT
                        !.herbivores = sort_herbivores_by_fitness(@, animals)]
           r == feed_loop(sorted, animals, sorted.herbivores, 1)
       IN  /\ island' = [island EXCEPT ![c] = r.self]
           /\ animals' = r.heap
    /\ pc' = "random_carnivore_order"
    /\ log' = Logged("feed")
    /\ UNCHANGED <<next_id, current_year, years_left, cell, loop, exception, hist, added>>
    /\ UNCHANGED <<island_map, stats, vis_years, img_years, overrides>>

\* the orders random.shuffle can leave a list in
Shuffles(list) ==
    {p \in [1..Len(list) -> Elems(list)] :
        \A x \in Elems(list) :
            Cardinality({i \in 1..Len(list) : p[i] = x}) =
            Cardinality({i \in 1..Len(list) : list[i] = x})}

\* BioSim.simulate, lines 177-178: Geography.random_carnivore_order and the
\* start of the loop over the carnivores
RandomCarnivoreOrder ==
    /\ pc = "random_carnivore_order"
    /\ \E p \in Shuffles(island[Coordinate(cell)].carnivores) :
          /\ island' = [island EXCEPT ![Coordinate(cell)].carnivores = p]
          /\ loop' = [items |-> p, i |-> 1, N |-> 0]
    /\ pc' = "hunt"
    /\ log' = Logged("random_carnivore_order")
    /\ UNCHANGED <<animals, next_id, current_year, years_left, cell, exception, hist, added>>
    /\ UNCHANGED <<island_map, stats, vis_years, img_years, overrides>>

\* one iteration of the loop over the carnivores that leaves the killed
\* herbivores in the list of the cell
Hunt_NoRemoval ==
    /\ pc = "hunt"
    /\ loop.i <= Len(loop.items)
    /\ LET c == Coordinate(cell)
           carnivore == loop.items[loop.i]
       IN  \E draws \in [1..Len(island[c].herbivores) -> Draws] :
             LET r == hunt(animals[carnivore], island[c].herbivores, animals, draws)
             IN  animals' = [animals EXCEPT ![carnivore] = r.self]
    /\ loop' = [loop EXCEPT !.i = @ + 1]
    /\ log' = Logged("hunt")
    /\ UNCHANGED <<island, hist>>
    /\ UNCHANGED <<next_id, current_year, years_left, pc, cell, exception, added>>
    /\ UNCHANGED <<island_map, stats, vis_years, img_years, overrides>>

\* BioSim.simulate, lines 178-181: one iteration of the loop over the carnivores
Hunt ==
    /\ pc = "hunt"
    /\ loop.i <= Len(loop.items)
    /\ LET c == Coordinate(cell)
           carnivore == loop.items[loop.i]
       IN  \E draws \in [1..Len(island[c].herbivores) -> Draws] :
             LET r == hunt(animals[carnivore], island[c].herbivores, animals, draws)
             IN  /\ island' = [island EXCEPT ![c] = herbivores_eaten(@, r.dead_herbivores)]
                 /\ animals' = Free([animals EXCEPT ![carnivore] = r.self],
                                     Elems(r.dead_herbivores))
                 /\ hist' = Free(hist, Elems(r.dead_herbivores))
    /\ loop' = [loop EXCEPT !.i = @ + 1]
    /\ log' = Logged("hunt")
    /\ UNCHANGED <<next_id, current_year, years_left, pc, cell, exception, added>>
    /\ UNCHANGED <<island_map, stats, vis_years, img_years, overrides>>

\* Geography.procreation, lines 119-121: the herbivores that may breed
Procreation ==
    /\ pc = "hunt"
    /\ loop.i > Len(loop.items)
    /\ LET filtered_herbivores == Filtered(island[Coordinate(cell)].herbivores, animals)
       IN  loop' = [items |-> filtered_herbivores, i |-> 1,
                    N |-> Len(filtered_herbivores)]
    /\ pc' = "herbivore_gives_birth"
    /\ UNCHANGED <<island, animals, next_id, current_year, years_left, cell,
                   exception, log, hist, added>>
    /\ UNCHANGED <<island_map, stats, vis_years, img_years, overrides>>

\* Geography.procreation, lines 122-125: one iteration
HerbivoreGivesBirth ==
    /\ pc = "herbivore_gives_birth"
    /\ loop.i <= Len(loop.items)
    /\ LET _herbivore == loop.items[loop.i]
       IN  \E u \in Draws, z \in GaussDraws :
             LET r == Herbivore_gives_birth(animals[_herbivore], loop.N, u, z)
                 heap == [animals EXCEPT ![_herbivore] = r.self]
             IN  IF r.baby /= << >>
                 THEN /\ next_id < MaxAnimals
                      /\ island' = [island EXCEPT ![Coordinate(cell)].herbivores =
                                       Append(@, next_id + 1)]
                      /\ animals' = (next_id + 1 :> r.baby[1]) @@ heap
                      /\ next_id' = next_id + 1
                      /\ hist' = NewHist(animals')
                 ELSE /\ animals' = heap
                      /\ UNCHANGED <<island, next_id, hist>>
    /\ loop' = [loop EXCEPT !.i = @ + 1]
    /\ UNCHANGED <<current_year, years_left, pc, cell, exception, log, added>>
    /\ UNCHANGED <<island_map, stats, vis_years, img_years, overrides>>

\* Geography.procreation, lines 128-130: the carnivores that may breed
CarnivoreProcreation ==
    /\ pc = "herbivore_gives_birth"
    /\ loop.i > Len(loop.items)
    /\ LET filtered_carnivores == Filtered(island[Coordinate(cell)].carnivores, animals)
       IN  loop' = [items |-> filtered_carnivores, i |-> 1,
                    N |-> Len(filtered_carnivores)]
    /\ pc' = "carnivore_gives_birth"
    /\ UNCHANGED <<island, animals, next_id, current_year, years_left, cell,
                   exception, log, hist, added>>
    /\ UNCHANGED <<island_map, stats, vis_years, img_years, overrides>>

\* Geography.procreation, lines 131-134: one iteration
CarnivoreGivesBirth ==
    /\ pc = "carnivore_gives_birth"
    /\ loop.i <= Len(loop.items)
    /\ LET _carnivore == loop.items[loop.i]
       IN  \E u \in Draws, z \in GaussDraws :
             LET r == Carnivore_gives_birth(animals[_carnivore], loop.N, u, z)
                 heap == [animals EXCEPT ![_carnivore] = r.self]
             IN  IF r.baby /= << >>
                 THEN /\ next_id < MaxAnimals
                      /\ island' = [island EXCEPT ![Coordinate(cell)].carnivores =
                                       Append(@, next_id + 1)]
                      /\ animals' = (next_id + 1 :> r.baby[1]) @@ heap
                      /\ next_id' = next_id + 1
                      /\ hist' = NewHist(animals')
                 ELSE /\ animals' = heap
                      /\ UNCHANGED <<island, next_id, hist>>
    /\ loop' = [loop EXCEPT !.i = @ + 1]
    /\ UNCHANGED <<current_year, years_left, pc, cell, exception, log, added>>
    /\ UNCHANGED <<island_map, stats, vis_years, img_years, overrides>>

\* Geography.animal_migration, lines 143-144: procreation has returned and
\* the residents are copied
AnimalMigration ==
    /\ pc = "carnivore_gives_birth"
    /\ loop.i > Len(loop.items)
    /\ loop' = [items |-> island[Coordinate(cell)].herbivores \o
                          island[Coordinate(cell)].carnivores,
                i |-> 1, N |-> 0]
    /\ pc' = "animal_migration"
    /\ log' = Logged("procreation")
    /\ UNCHANGED <<island, animals, next_id, current_year, years_left, cell,
                   exception, hist, added>>
    /\ UNCHANGED <<island_map, stats, vis_years, img_years, overrides>>

\* Geography.animal_migration, lines 146-157: one iteration
MigrateAnimal ==
    /\ pc = "animal_migration"
    /\ loop.i <= Len(loop.items)
    /\ LET current_coordinate == Coordinate(cell)
           _animal == loop.items[loop.i]
       IN  \E choice \in 1..4, draw \in Draws :
             LET new_coordinate ==
                     Adjacent(current_coordinate[1], current_coordinate[2])[choice]
                 moved == Migrate(island, current_coordinate, new_coordinate, _animal)
             IN  IF Moves(island, new_coordinate, animals[_animal], draw)
                 THEN /\ island' = moved
                      /\ hist' = IF moved /= island
                                 THEN [hist EXCEPT
                                         ![_animal].moves = @ + 1,
                                         ![_animal].left =
                                             Append(@, <<current_coordinate,
                                                         current_year>>)]
                                 ELSE hist
                 ELSE UNCHANGED <<island, hist>>
    /\ loop' = [loop EXCEPT !.i = @ + 1]
    /\ UNCHANGED <<animals, next_id, current_year, years_left, pc, cell,
                   exception, log, added>>
    /\ UNCHANGED <<island_map, stats, vis_years, img_years, overrides>>

\* BioSim.simulate, lines 187-191: animal_migration has returned
MigrationDone ==
    /\ pc = "animal_migration"
    /\ loop.i > Len(loop.items)
    /\ pc' = AfterMigration(cell).pc
    /\ cell' = AfterMigration(cell).cell
    /\ stats' = IF AfterMigration(cell).pc = "grow_fodder" THEN stats
                 ELSE StatisticsFrom(stats, island, animals,
                                     Len(stats.herb_pop) + 1, NumCells)
    /\ loop' = NoLoop
    /\ log' = Logged("animal_migration")
    /\ UNCHANGED <<island, animals, next_id, current_year, years_left,
                   exception, hist, added>>
    /\ UNCHANGED <<island_map, vis_years, img_years, overrides>>

\* BioSim.simulate, line 192
MigrationFinished ==
    /\ pc = "migration_finished"
    /\ island' = [island EXCEPT ![Coordinate(cell)] = migration_finished(@)]
    /\ pc' = "animal_aging"
    /\ log' = Logged("migration_finished")
    /\ UNCHANGED <<animals, next_id, current_year, years_left, cell, loop,
                   exception, hist, added>>
    /\ UNCHANGED <<island_map, stats, vis_years, img_years, overrides>>

\* BioSim.simulate, line 195
AnimalAging ==
    /\ pc = "animal_aging"
    /\ animals' = animal_aging(island[Coordinate(cell)], animals)
    /\ pc' = "animal_death"
    /\ log' = Logged("animal_aging")
    /\ UNCHANGED <<island, next_id, current_year, years_left, cell, loop,
                   exception, hist, added>>
    /\ UNCHANGED <<island_map, stats, vis_years, img_years, overrides>>

\* BioSim.simulate, line 198
AnimalDeath ==
    /\ pc = "animal_death"
    /\ LET c == Coordinate(cell)
           n == Len(island[c].herbivores) + Len(island[c].carnivores)
       IN  \E draws \in [1..n -> Draws] :
             LET dead == Elems(DeadAnimals(island[c], animals, draws))
             IN  /\ island' = [island EXCEPT ![c] = animal_death(@, animals, draws)]
                 /\ animals' = Free(animals, dead)
                 /\ hist' = Free(hist, dead)
    /\ pc' = AfterDeath(cell).pc
    /\ cell' = AfterDeath(cell).cell
    /\ log' = Logged("animal_death")
    /\ UNCHANGED <<next_id, current_year, years_left, loop, exception, added>>
    /\ UNCHANGED <<island_map, stats, vis_years, img_years, overrides>>

\* BioSim.simulate, lines 200-225: the end of the loop body for one year.
\* With graphics enabled, img_years is tested against vis_years here (lines
\* 210-212), and the ValueError ends the call.
EndOfYear ==
    /\ pc = "end_of_year"
    /\ IF vis_years /= 0 /\ img_years % vis_years /= 0
       THEN /\ exception' = "ValueError"
            /\ years_left' = 0
            /\ pc' = "idle"
       ELSE /\ years_left' = years_left - 1
            /\ pc' = "year"
            /\ UNCHANGED exception
    /\ log' = << >>
    /\ stats' = NoStats
    /\ hist' = [id \in DOMAIN animals |->
                   [age0 |-> animals[id].age, moves |-> 0, left |-> hist[id].left]]
    /\ UNCHANGED <<island, animals, next_id, current_year, cell, loop, added>>
    /\ UNCHANGED <<island_map, vis_years, img_years, overrides>>

Next ==
    \/ \E k \in 1..Len(Populations) : AddPopulation(k)
    \/ \E num_years \in 1..MaxYears : Simulate(num_years)
    \/ BeginYear
    \/ GrowFodder
    \/ Feeding
    \/ RandomCarnivoreOrder
    \/ Hunt
    \/ Procreation
    \/ HerbivoreGivesBirth
    \/ CarnivoreProcreation
    \/ CarnivoreGivesBirth
    \/ AnimalMigration
    \/ MigrateAnimal
    \/ MigrationDone
    \/ MigrationFinished
    \/ AnimalAging
    \/ AnimalDeath
    \/ EndOfYear

Spec == Init /\ [][Next]_vars

\* ------------------------------------------------------------------------
\* Carnivore.hunt on its own: one carnivore hunts in a Desert cell
\* ------------------------------------------------------------------------
\* herbivores in the list handed to one call of hunt
MaxPrey == 3

\* an island with a Desert cell, where feeding leaves the weights as they are
HuntMap ==
    << <<"W", "W", "W", "W">>,
       <<"W", "D", "L", "W">>,
       <<"W", "W", "W", "W">> >>

\* the herbivores hunted: one born last year with the birth weight -1.0 that
\* random.gauss can return, and inserted ones of weight 10, 30 and 60
HuntPrey ==
    {update_age(Herbivore(0, <<-1000>>, 0)),
     Herbivore(5, <<10000>>, 0),
     Herbivore(5, <<30000>>, 0),
     Herbivore(5, <<60000>>, 0)}

\* the carnivores hunting; one has DeltaPhiMax = 0.4 set, below the fitness
\* it has over part of the herbivores
HuntPredators ==
    {Carnivore(5, <<20000>>, 0), Carnivore(5, <<4000>>, 0), Carnivore(40, <<20000>>, 0),
     set_animal_params(Carnivore(5, <<20000>>, 0), [DeltaPhiMax |-> 400])}

\* simulate in its second year at line 178 for the Desert cell (2, 2): the
\* herbivores have been sorted and have found no fodder, the one carnivore
\* is about to hunt
HuntInit ==
    \E predator \in HuntPredators, n \in 0..MaxPrey :
      \E prey \in [1..n -> HuntPrey] :
        LET heap == [id \in 1..(n + 1) |-> IF id <= n THEN prey[id] ELSE predator]
            herbivores == sort_herbivores_by_fitness([i \in 1..n |-> i], heap)
            isl == [create_island(HuntMap).island EXCEPT
                       ![<<2, 2>>].herbivores = herbivores,
                       ![<<2, 2>>].carnivores = <<n + 1>>]
        IN  /\ island = isl
            /\ animals = heap
            /\ next_id = n + 1
            /\ current_year = 2
            /\ years_left = 1
            /\ pc = "hunt"
            /\ cell = Width + 2
            /\ loop = [items |-> <<n + 1>>, i |-> 1, N |-> 0]
            /\ exception = "None"
            /\ added = 0
            /\ log = << <<<<2, 2>>, "grow_fodder">>, <<<<2, 2>>, "feed">>,
                        <<<<2, 2>>, "random_carnivore_order">> >>
            /\ hist = [id \in 1..(n + 1) |->
                          [age0 |-> heap[id].age, moves |-> 0, left |-> << >>]]
            /\ island_map = HuntMap
            /\ stats = StatisticsFrom(NoStats, isl, heap, 1, Width + 2)
            /\ vis_years = 0
            /\ img_years = 0
            /\ overrides = NoOverrides

HuntNext == Hunt

HuntSpec == HuntInit /\ [][HuntNext]_vars

\* ------------------------------------------------------------------------
\* create_island on its own: BioSim.__init__ builds the island of a map
\* ------------------------------------------------------------------------
\* lines of a map
MaxRows == 3
\* letters of the first line of a map
MaxCols == 3

\* the letters of a map: the four geography types and an unknown one
Letters == {"W", "L", "H", "D", "X"}

\* the maps: r lines of c letters W in which up to two letters are replaced
\* and, unless d = 0, line d has lost its last letter.  (str.split returns
\* non-empty lines; a map without lines fails at lines[0].)
Maps ==
    {[x \in 1..r |->
        [y \in 1..(IF x = d THEN c - 1 ELSE c) |->
            IF <<x, y>> = p[2] THEN l[2]
            ELSE IF <<x, y>> = p[1] THEN l[1]
            ELSE "W"]] :
        r \in 1..MaxRows, c \in 1..MaxCols,
        p \in ((1..MaxRows) \X (1..MaxCols)) \X ((1..MaxRows) \X (1..MaxCols)),
        l \in Letters \X Letters,
        d \in 0..MaxRows}

\* the lines of island_map.split(): non-empty lines
MapInit ==
    /\ island_map \in {m \in Maps : \A x \in 1..Len(m) : m[x] /= << >>}
    /\ island = << >>
    /\ animals = << >>
    /\ next_id = 0
    /\ current_year = 0
    /\ years_left = 0
    /\ pc = "create_island"
    /\ cell = 0
    /\ loop = NoLoop
    /\ exception = "None"
    /\ added = 0
    /\ log = << >>
    /\ hist = << >>
    /\ stats = NoStats
    /\ vis_years = 0
    /\ img_years = 0
    /\ overrides = NoOverrides

\* BioSim.__init__, line 54
CreateIsland ==
    /\ pc = "create_island"
    /\ LET r == create_island(island_map)
       IN  /\ island' = r.island
           /\ exception' = r.raised
    /\ pc' = "idle"
    /\ UNCHANGED <<animals, next_id, current_year, years_left, cell, loop, added,
                   log, hist, island_map, stats, vis_years, img_years,
                   overrides>>

MapNext == CreateIsland

MapSpec == MapInit /\ [][MapNext]_vars

\* ------------------------------------------------------------------------
\* set_landscape_parameters between calls of add_population
\* ------------------------------------------------------------------------
\* the codes set_landscape_parameters is called with
LandscapeCodes == Letters

\* the dicts set_landscape_parameters is called with
LandscapeParams == {[f_max |-> 300000]}

\* the body of the loop with the assignment ahead of the test of the code
set_f_max_BeforeRaise(geography, landscape, params) ==
    [self |-> [f_max |-> params.f_max] @@ geography,
     raised |-> IF landscape \in {"L", "H"} THEN "None" ELSE "ValueError"]

\* BioSim.set_landscape_parameters, lines 105-110: the body of the loop for
\* one cell.  The assignment creates the attribute where the cell has none.
set_f_max(geography, landscape, params) ==
    IF landscape = "L"
    THEN [self |-> [f_max |-> params.f_max] @@ geography, raised |-> "None"]
    ELSE IF landscape = "H"
    THEN [self |-> [f_max |-> params.f_max] @@ geography, raised |-> "None"]
    ELSE [self |-> geography, raised |-> "ValueError"]

\* BioSim.set_landscape_parameters, from the i-th cell of self.island on
RECURSIVE set_landscape_parameters_loop(_, _, _, _)
set_landscape_parameters_loop(isl, landscape, params, i) ==
    IF i > NumCells
    THEN [island |-> isl, raised |-> "None"]
    ELSE LET r == set_f_max(isl[Coordinate(i)], landscape, params)
             isl1 == [isl EXCEPT ![Coordinate(i)] = r.self]
         IN  IF r.raised /= "None"
             THEN [island |-> isl1, raised |-> r.raised]
             ELSE set_landscape_parameters_loop(isl1, landscape, params, i + 1)

\* BioSim.set_landscape_parameters
set_landscape_parameters(isl, landscape, params) ==
    set_landscape_parameters_loop(isl, landscape, params, 1)

SetLandscapeParameters(landscape, params) ==
    /\ pc = "idle"
    /\ LET r == set_landscape_parameters(island, landscape, params)
       IN  /\ island' = r.island
           /\ exception' = r.raised
    /\ overrides' = IF landscape \in {"L", "H"}
                     THEN [overrides EXCEPT ![landscape] = <<params.f_max>>]
                     ELSE overrides
    /\ added' = 0
    /\ UNCHANGED <<animals, next_id, current_year, years_left, pc, cell, loop,
                   log, hist, island_map, stats, vis_years, img_years>>

\* the species set_animal_parameters is called with
SpeciesNames == {"Herbivore", "Carnivore", "Rabbit"}

\* the dicts set_animal_parameters is called with
AnimalParams == {[phi_age |-> 200, DeltaPhiMax |-> 15000]}

\* the loop over the animals of one list (lines 91-92 and 94-95)
RECURSIVE set_params_loop(_, _, _)
set_params_loop(list, heap, params) ==
    IF list = << >> THEN heap
    ELSE set_params_loop(Tail(list),
                         [heap EXCEPT ![Head(list)] = set_animal_params(@, params)],
                         params)

\* BioSim.set_animal_parameters, from the i-th cell of self.island on
RECURSIVE set_animal_parameters_loop(_, _, _, _, _)
set_animal_parameters_loop(isl, heap, species, params, i) ==
    IF i > NumCells THEN heap
    ELSE LET geography == isl[Coordinate(i)]
             heap1 == IF geography.movable /\ species = "Herbivore"
                      THEN set_params_loop(geography.herbivores, heap, params)
                      ELSE IF geography.movable /\ species = "Carnivore"
                      THEN set_params_loop(geography.carnivores, heap, params)
                      ELSE heap
         IN  set_animal_parameters_loop(isl, heap1, species, params, i + 1)

\* set_animal_parameters without the tests of species
set_animal_parameters_AllSpecies(isl, heap, species, params) ==
    [id \in DOMAIN heap |-> set_animal_params(heap[id], params)]

\* BioSim.set_animal_parameters
set_animal_parameters(isl, heap, species, params) ==
    set_animal_parameters_loop(isl, heap, species, params, 1)

SetAnimalParameters(species, params) ==
    /\ pc = "idle"
    /\ animals' = set_animal_parameters(island, animals, species, params)
    /\ overrides' = IF species \in {"Herbivore", "Carnivore"}
                     THEN [overrides EXCEPT ![species] = params @@ @]
                     ELSE overrides
    /\ exception' = "None"
    /\ added' = 0
    /\ UNCHANGED <<island, next_id, current_year, years_left, pc, cell, loop,
                   log, hist, island_map, stats, vis_years, img_years>>

ConfigNext ==
    \/ \E k \in 1..Len(Populations) : AddPopulation(k)
    \/ \E landscape \in LandscapeCodes : \E params \in LandscapeParams :
          SetLandscapeParameters(landscape, params)
    \/ \E species \in SpeciesNames : \E params \in AnimalParams :
          SetAnimalParameters(species, params)

ConfigSpec == Init /\ [][ConfigNext]_vars

\* ------------------------------------------------------------------------
\* BioSim.__init__ with an initial population
\* ------------------------------------------------------------------------
\* the geography of a cell is fixed when the island is created
Geographies == create_island(IslandMap).island

PassableCells == {c \in DOMAIN Geographies : Geographies[c].movable}

WaterCells == {c \in DOMAIN Geographies : ~Geographies[c].movable}

\* the descriptions of animals in ini_pop
Descriptions ==
    {[species |-> "Herbivore", age |-> 5, weight |-> 40000],
     [species |-> "Herbivore", age |-> 3, weight |-> 30000],
     [species |-> "Carnivore", age |-> 5, weight |-> 20000],
     [species |-> "Rabbit", age |-> 5, weight |-> 20000]}

\* the number of animals ini_pop describes at most
MaxDescribed == 2

\* the lists of descriptions of up to MaxDescribed animals
DescriptionLists == UNION {[1..m -> Descriptions] : m \in 0..MaxDescribed}

\* the values of ini_pop: two elements on passable cells that share the
\* descriptions of one list
IniPops ==
    {<<[loc |-> t[1], pop |-> SubSeq(t[3], 1, Min(t[4], Len(t[3])))],
       [loc |-> t[2], pop |-> SubSeq(t[3], Min(t[4], Len(t[3])) + 1, Len(t[3]))]>> :
        t \in PassableCells \X PassableCells \X DescriptionLists \X (0..MaxDescribed)}

\* BioSim.__init__ after line 54: the island has been created
PopInit ==
    /\ island = create_island(IslandMap).island
    /\ animals = << >>
    /\ next_id = 0
    /\ current_year = 0
    /\ years_left = 0
    /\ pc = "ini_pop"
    /\ cell = 0
    /\ loop = NoLoop
    /\ exception = "None"
    /\ added = 0
    /\ log = << >>
    /\ hist = << >>
    /\ island_map = IslandMap
    /\ stats = NoStats
    /\ vis_years = 0
    /\ img_years = 0
    /\ overrides = NoOverrides

\* BioSim.__init__, line 55: self.add_population(population=self.ini_pop)
AddIniPop(ini_pop) ==
    /\ pc = "ini_pop"
    /\ LET r == add_population(island, animals, next_id, ini_pop)
       IN  /\ island' = r.island
           /\ animals' = r.heap
           /\ next_id' = r.nid
           /\ exception' = r.raised
           /\ hist' = NewHist(r.heap)
    /\ pc' = "idle"
    /\ UNCHANGED <<current_year, years_left, cell, loop, added, log>>
    /\ UNCHANGED <<island_map, stats, vis_years, img_years, overrides>>

PopNext ==
    \/ \E ini_pop \in IniPops : AddIniPop(ini_pop)
    \/ \E k \in 1..Len(Populations) : AddPopulation(k)

PopSpec == PopInit /\ [][PopNext]_vars

\* ------------------------------------------------------------------------
\* one animal on its own: update_age and calculate_fitness
\* ------------------------------------------------------------------------
\* the largest x for which e ** x is a float; beyond it ** raises
\* OverflowError (709.782..., the logarithm of the largest float)
MaxExponent == 709782

\* Animal.calculate_fitness, line 65: one of the two powers of e overflows
calculate_fitness_raises(self) ==
    /\ self.weight > 0
    /\ \/ FMul(self.phi_age, self.age * Scale - self.a_half) > MaxExponent
       \/ FMul(-self.phi_weight, self.weight - self.w_half) > MaxExponent

\* calls of update_age on the animal
MaxAged == 2

\* the ages and weights the animal is constructed with
FitnessAges == {0, 5, 39, 1221, 1222}

FitnessWeights == {-1000, 0, 500, 20000, 40000}

\* one animal constructed with an age and a weight
FitnessInit ==
    /\ island = create_island(IslandMap).island
    /\ \E age \in FitnessAges, weight \in FitnessWeights :
          \E animal \in {Herbivore(age, <<weight>>, 0), Carnivore(age, <<weight>>, 0)} :
              /\ animals = <<animal>>
              /\ hist = <<[age0 |-> animal.age, moves |-> 0, left |-> << >>]>>
    /\ next_id = 1
    /\ current_year = 0
    /\ years_left = 0
    /\ pc = "idle"
    /\ cell = 0
    /\ loop = NoLoop
    /\ exception = "None"
    /\ added = 0
    /\ log = << >>
    /\ island_map = IslandMap
    /\ stats = NoStats
    /\ vis_years = 0
    /\ img_years = 0
    /\ overrides = NoOverrides

\* animal.update_age(): age and weight are assigned before calculate_fitness
\* is called, and stay assigned when it raises
UpdateAge ==
    /\ exception = "None"
    /\ animals[1].age - hist[1].age0 < MaxAged
    /\ LET self == animals[1]
           aged == [self EXCEPT !.age = self.age + 1,
                                !.weight = self.weight - FMul(self.weight, self.eta)]
       IN  IF calculate_fitness_raises(aged)
           THEN /\ animals' = [animals EXCEPT ![1] = aged]
                /\ exception' = "OverflowError"
           ELSE /\ animals' = [animals EXCEPT ![1] = update_age(self)]
                /\ exception' = "None"
    /\ UNCHANGED <<island, next_id, current_year, years_left, pc, cell, loop, added,
                   log, hist>>
    /\ UNCHANGED <<island_map, stats, vis_years, img_years, overrides>>

\* animal.calculate_fitness()
CalculateFitness ==
    /\ exception = "None"
    /\ IF calculate_fitness_raises(animals[1])
       THEN /\ exception' = "OverflowError"
            /\ UNCHANGED animals
       ELSE /\ animals' = [animals EXCEPT ![1] = calculate_fitness(animals[1])]
            /\ exception' = "None"
    /\ UNCHANGED <<island, next_id, current_year, years_left, pc, cell, loop, added,
                   log, hist>>
    /\ UNCHANGED <<island_map, stats, vis_years, img_years, overrides>>

\* animal.set_animal_params(params): fitness is left as it was
SetAnimalParams(params) ==
    /\ exception = "None"
    /\ animals' = [animals EXCEPT ![1] = set_animal_params(animals[1], params)]
    /\ UNCHANGED <<island, next_id, current_year, years_left, pc, cell, loop, added,
                   log, hist, exception>>
    /\ UNCHANGED <<island_map, stats, vis_years, img_years, overrides>>

FitnessNext ==
    \/ UpdateAge
    \/ CalculateFitness
    \/ \E params \in AnimalParams : SetAnimalParams(params)

FitnessSpec == FitnessInit /\ [][FitnessNext]_vars

\* ------------------------------------------------------------------------
\* one animal on its own: gives_birth
\* ------------------------------------------------------------------------
\* the weights of the parent
BirthWeights == {5000, 10000, 40000}

\* the values of zeta: the default, and 1.0 set through set_animal_params
BirthZetas == {3500, 1000}

\* the values of the argument N
BirthNs == {1, 2, 3}

\* the deviates of the newborn's weight: GaussDraws and two standard
\* deviations above the mean
BirthDeviates == GaussDraws \cup {2000}

\* one animal of age 5, its zeta the default or set with set_animal_params
BirthInit ==
    /\ island = create_island(IslandMap).island
    /\ \E weight \in BirthWeights, zeta \in BirthZetas :
          \E animal \in {Herbivore(5, <<weight>>, 0), Carnivore(5, <<weight>>, 0)} :
              /\ animals = <<set_animal_params(animal, [zeta |-> zeta])>>
              /\ hist = <<[age0 |-> animal.age, moves |-> 0, left |-> << >>]>>
    /\ next_id = 1
    /\ current_year = 0
    /\ years_left = 0
    /\ pc = "idle"
    /\ cell = 0
    /\ loop = NoLoop
    /\ exception = "None"
    /\ added = 0
    /\ log = << >>
    /\ island_map = IslandMap
    /\ stats = NoStats
    /\ vis_years = 0
    /\ img_years = 0
    /\ overrides = NoOverrides

\* calls of gives_birth in one run
MaxBirths == 2

\* baby = animal.gives_birth(N) on the first animal; a newborn is kept
GivesBirth(N, u, z) ==
    /\ next_id < MaxAnimals
    /\ Len(log) < MaxBirths
    /\ log' = Append(log, <<<<N, u, z>>, "gives_birth">>)
    /\ LET self == animals[1]
           r == IF self.species = "Herbivore"
                THEN Herbivore_gives_birth(self, N, u, z)
                ELSE Carnivore_gives_birth(self, N, u, z)
       IN  /\ animals' = [animals EXCEPT ![1] = r.self] \o r.baby
           /\ next_id' = next_id + Len(r.baby)
           /\ hist' = hist \o [i \in 1..Len(r.baby) |->
                                  [age0 |-> 0, moves |-> 0, left |-> << >>]]
    /\ UNCHANGED <<island, current_year, years_left, pc, cell, loop, exception, added>>
    /\ UNCHANGED <<island_map, stats, vis_years, img_years, overrides>>

BirthNext == \E N \in BirthNs, u \in Draws, z \in BirthDeviates : GivesBirth(N, u, z)

BirthSpec == BirthInit /\ [][BirthNext]_vars

\* ------------------------------------------------------------------------
\* the procreation of one cell on its own
\* ------------------------------------------------------------------------
\* the residents of the cell: adults of both species and a herbivore of
\* age 0
BreedAnimals ==
    {Herbivore(5, <<40000>>, 0), Herbivore(0, <<40000>>, 0), Carnivore(5, <<40000>>, 0)}

\* simulate, line 150, is about to call procreation on the Lowland cell
BreedInit ==
    \E n \in 1..MaxAnimals :
      \E heap \in [1..n -> BreedAnimals] :
        LET ids == [i \in 1..n |-> i]
        IN  /\ island = [create_island(IslandMap).island EXCEPT
                            ![<<2, 2>>].herbivores =
                                SelectSeq(ids, LAMBDA id : heap[id].species = "Herbivore"),
                            ![<<2, 2>>].carnivores =
                                SelectSeq(ids, LAMBDA id : heap[id].species = "Carnivore")]
            /\ animals = heap
            /\ next_id = n
            /\ current_year = 1
            /\ years_left = 1
            /\ pc = "hunt"
            /\ cell = Width + 2
            /\ loop = [items |-> << >>, i |-> 1, N |-> 0]
            /\ exception = "None"
            /\ added = 0
            /\ log = << >>
            /\ hist = [id \in 1..n |->
                          [age0 |-> heap[id].age, moves |-> 0, left |-> << >>]]
            /\ island_map = IslandMap
            /\ stats = NoStats
            /\ vis_years = 0
            /\ img_years = 0
            /\ overrides = NoOverrides

BreedNext ==
    \/ Procreation
    \/ HerbivoreGivesBirth
    \/ CarnivoreProcreation
    \/ CarnivoreGivesBirth

BreedSpec == BreedInit /\ [][BreedNext]_vars

\* ------------------------------------------------------------------------
\* the hunting of one cell with several carnivores
\* ------------------------------------------------------------------------
\* carnivores in the cell
MaxPack == 2

\* the carnivores hunting: with the default DeltaPhiMax and with 0.4
PackPredators ==
    {Carnivore(5, <<20000>>, 0),
     set_animal_params(Carnivore(5, <<20000>>, 0), [DeltaPhiMax |-> 400])}

\* simulate at line 178 for the Desert cell (2, 2): the herbivores have been
\* sorted, the carnivores shuffled, and the first carnivore is about to hunt
PackInit ==
    \E n \in 0..MaxPrey, m \in 1..MaxPack :
      \E prey \in [1..n -> HuntPrey], predators \in [1..m -> PackPredators] :
        LET heap == [id \in 1..(n + m) |->
                        IF id <= n THEN prey[id] ELSE predators[id - n]]
            herbivores == sort_herbivores_by_fitness([i \in 1..n |-> i], heap)
            carnivores == [i \in 1..m |-> n + i]
            isl == [create_island(HuntMap).island EXCEPT
                       ![<<2, 2>>].herbivores = herbivores,
                       ![<<2, 2>>].carnivores = carnivores]
        IN  /\ island = isl
            /\ animals = heap
            /\ next_id = n + m
            /\ current_year = 2
            /\ years_left = 1
            /\ pc = "hunt"
            /\ cell = Width + 2
            /\ loop = [items |-> carnivores, i |-> 1, N |-> 0]
            /\ exception = "None"
            /\ added = 0
            /\ log = << <<<<2, 2>>, "grow_fodder">>, <<<<2, 2>>, "feed">>,
                        <<<<2, 2>>, "random_carnivore_order">> >>
            /\ hist = [id \in 1..(n + m) |->
                          [age0 |-> heap[id].age, moves |-> 0, left |-> << >>]]
            /\ island_map = HuntMap
            /\ stats = StatisticsFrom(NoStats, isl, heap, 1, Width + 2)
            /\ vis_years = 0
            /\ img_years = 0
            /\ overrides = NoOverrides

PackNext == Hunt

PackSpec == PackInit /\ [][PackNext]_vars

\* ------------------------------------------------------------------------
\* the migration out of one cell on its own
\* ------------------------------------------------------------------------
\* the residents of the cell; the herbivore of weight 0 has fitness 0
MigrateAnimals ==
    {Herbivore(5, <<40000>>, 0), Herbivore(5, <<0>>, 0), Carnivore(5, <<20000>>, 0)}

\* simulate, line 187: animal_migration of a passable cell has copied the
\* residents of the cell
MigrateInit ==
    \E n \in 1..MaxAnimals, c \in PassableCells :
      \E heap \in [1..n -> MigrateAnimals] :
        LET ids == [i \in 1..n |-> i]
            herbivores == SelectSeq(ids, LAMBDA id : heap[id].species = "Herbivore")
            carnivores == SelectSeq(ids, LAMBDA id : heap[id].species = "Carnivore")
        IN  /\ island = [create_island(IslandMap).island EXCEPT
                            ![c].herbivores = herbivores,
                            ![c].carnivores = carnivores]
            /\ animals = heap
            /\ next_id = n
            /\ current_year = 1
            /\ years_left = 1
            /\ pc = "animal_migration"
            /\ cell = (c[1] - 1) * Width + c[2]
            /\ loop = [items |-> herbivores \o carnivores, i |-> 1, N |-> 0]
            /\ exception = "None"
            /\ added = 0
            /\ log = << >>
            /\ hist = [id \in 1..n |->
                          [age0 |-> heap[id].age, moves |-> 0, left |-> << >>]]
            /\ island_map = IslandMap
            /\ stats = NoStats
            /\ vis_years = 0
            /\ img_years = 0
            /\ overrides = NoOverrides

MigrateNext == MigrateAnimal

MigrateSpec == MigrateInit /\ [][MigrateNext]_vars

\* ------------------------------------------------------------------------
\* the deaths of one cell on its own
\* ------------------------------------------------------------------------
\* the animals of the island; those of weight 0 die whatever the draw
DeathAnimals ==
    {Herbivore(6, <<40000>>, 0), Herbivore(6, <<0>>, 0),
     Carnivore(6, <<20000>>, 0), Carnivore(6, <<0>>, 0)}

\* simulate, line 198: the Lowland cell has merged its arrivals and aged its
\* residents; the Highland cell, which comes later in the loop, holds the
\* last animal in one of its transit lists if waiting is true
DeathInit ==
    \E n \in 1..MaxAnimals, waiting \in BOOLEAN :
      \E heap \in [1..(IF waiting THEN n + 1 ELSE n) -> DeathAnimals] :
        LET last == IF waiting THEN n + 1 ELSE n
            ids == [i \in 1..n |-> i]
            isl == [create_island(IslandMap).island EXCEPT
                      ![<<2, 2>>].herbivores =
                          SelectSeq(ids, LAMBDA id : heap[id].species = "Herbivore"),
                      ![<<2, 2>>].carnivores =
                          SelectSeq(ids, LAMBDA id : heap[id].species = "Carnivore"),
                      ![<<2, 3>>].migrated_herbivores =
                          IF waiting /\ heap[last].species = "Herbivore"
                          THEN <<last>> ELSE << >>,
                      ![<<2, 3>>].migrated_carnivores =
                          IF waiting /\ heap[last].species = "Carnivore"
                          THEN <<last>> ELSE << >>]
        IN  /\ island = isl
            /\ animals = heap
            /\ next_id = last
            /\ current_year = 1
            /\ years_left = 1
            /\ pc = "animal_death"
            /\ cell = Width + 2
            /\ loop = NoLoop
            /\ exception = "None"
            /\ added = 0
            /\ log = << >>
            /\ hist = [id \in 1..last |->
                          [age0 |-> heap[id].age - 1, moves |-> 0, left |-> << >>]]
            /\ island_map = IslandMap
            /\ stats = NoStats
            /\ vis_years = 0
            /\ img_years = 0
            /\ overrides = NoOverrides

DeathNext == AnimalDeath

DeathSpec == DeathInit /\ [][DeathNext]_vars

\* ------------------------------------------------------------------------
\* the feeding of one cell on its own, for every amount of fodder
\* ------------------------------------------------------------------------
\* herbivores in the cell that feeds
MaxFed == 2

\* the values of f_max set for the Lowland cell: the fodder it has grown
FodderValues == {0, 4000, 10000, 15000, 800000}

\* the herbivores inserted
FeedHerbivores ==
    {Herbivore(5, <<20000>>, 0), Herbivore(5, <<40000>>, 0), Herbivore(40, <<10000>>, 0)}

\* simulate in its first year at line 169 for the Lowland cell (2, 2), after
\* set_landscape_parameters('L', {'f_max': f_max}) and add_population: the
\* cell has grown its fodder, its herbivores are about to feed
FeedInit ==
    \E f_max \in FodderValues, n \in 0..MaxFed :
      \E inserted \in [1..n -> FeedHerbivores] :
        LET heap == [id \in 1..n |-> inserted[id]]
            tuned == set_landscape_parameters(create_island(IslandMap).island,
                                              "L", [f_max |-> f_max]).island
            isl == [tuned EXCEPT ![<<2, 2>>].herbivores = [i \in 1..n |-> i]]
        IN  /\ island = [isl EXCEPT ![<<2, 2>>] = grow_fodder(@)]
            /\ animals = heap
            /\ next_id = n
            /\ current_year = 1
            /\ years_left = 1
            /\ pc = "feed"
            /\ cell = Width + 2
            /\ loop = NoLoop
            /\ exception = "None"
            /\ added = 0
            /\ log = << <<<<2, 2>>, "grow_fodder">> >>
            /\ hist = [id \in 1..n |->
                          [age0 |-> heap[id].age, moves |-> 0, left |-> << >>]]
            /\ island_map = IslandMap
            /\ stats = StatisticsFrom(NoStats, isl, heap, 1, Width + 2)
            /\ vis_years = 0
            /\ img_years = 0
            /\ overrides = [NoOverrides EXCEPT !.L = <<f_max>>]

FeedNext == Feeding

FeedSpec == FeedInit /\ [][FeedNext]_vars

\* ------------------------------------------------------------------------
\* simulate with graphics: BioSim.__init__ with vis_years and img_years
\* ------------------------------------------------------------------------
\* the values of vis_years; 0 disables the graphics
VisYears == {0, 1, 2}

\* the values of img_years; None takes the value of vis_years (lines 63-64)
ImgYears == {None, <<2>>, <<3>>}

VisInit ==
    /\ island = create_island(IslandMap).island
    /\ animals = << >>
    /\ next_id = 0
    /\ current_year = 0
    /\ years_left = 0
    /\ pc = "idle"
    /\ cell = 0
    /\ loop = NoLoop
    /\ exception = "None"
    /\ added = 0
    /\ log = << >>
    /\ hist = << >>
    /\ island_map = IslandMap
    /\ stats = NoStats
    /\ vis_years \in VisYears
    /\ \E img \in ImgYears :
          img_years = IF img = None THEN vis_years ELSE img[1]
    /\ overrides = NoOverrides

VisSpec == VisInit /\ [][Next]_vars

\* ------------------------------------------------------------------------
\* simulate after the parameters were set
\* ------------------------------------------------------------------------
\* the parameters are set ahead of the first call of simulate
TunedNext ==
    \/ Next
    \/ /\ current_year = 0
       /\ \E landscape \in LandscapeCodes : \E params \in LandscapeParams :
             SetLandscapeParameters(landscape, params)
    \/ /\ current_year = 0
       /\ \E species \in SpeciesNames : \E params \in AnimalParams :
             SetAnimalParameters(species, params)

TunedSpec == Init /\ [][TunedNext]_vars

\* ------------------------------------------------------------------------
\* the parameters of the landscape are set between two calls of simulate
\* ------------------------------------------------------------------------
RetunedNext ==
    \/ Next
    \/ /\ current_year = MaxYears
       /\ \E landscape \in LandscapeCodes : \E params \in LandscapeParams :
             SetLandscapeParameters(landscape, params)

RetunedSpec == Init /\ [][RetunedNext]_vars

\* ------------------------------------------------------------------------
\* Properties
\* ------------------------------------------------------------------------
\* the residents of a cell
Residents(self) == Elems(self.herbivores) \cup Elems(self.carnivores)

\* the animals in transit to a cell
Transit(self) == Elems(self.migrated_herbivores) \cup Elems(self.migrated_carnivores)

\* number of times id occurs in list
Count(list, id) == Cardinality({i \in 1..Len(list) : list[i] = id})

\* number of times id occurs in the lists of the passable cells
RECURSIVE SumOver(_, _)
SumOver(S, f) ==
    IF S = {} THEN 0
    ELSE LET x == CHOOSE y \in S : TRUE
         IN  f[x] + SumOver(S \ {x}, f)

Occurrences(id) ==
    SumOver(PassableCells,
            [c \in PassableCells |->
                Count(island[c].herbivores, id) + Count(island[c].carnivores, id) +
                Count(island[c].migrated_herbivores, id) +
                Count(island[c].migrated_carnivores, id)])

\* the calls completed so far in the current year
Done(c, step) == \E i \in 1..Len(log) : log[i] = <<c, step>>

Phase1Calls == {"grow_fodder", "feed", "random_carnivore_order", "procreation",
                "animal_migration"}

Phase1Positions == {"grow_fodder", "feed", "random_carnivore_order", "hunt",
                    "herbivore_gives_birth", "carnivore_gives_birth",
                    "animal_migration"}

Phase2Calls == {"migration_finished", "animal_aging", "animal_death"}

\* C1: in a year, a phase-2 call (migration_finished, animal_aging,
\* animal_death) runs only after every passable cell has completed all its
\* phase-1 calls, and no phase-1 call runs after it.
C1_PhaseOneBeforePhaseTwo ==
    \A j \in 1..Len(log) :
        log[j][2] \in Phase2Calls =>
            /\ \A c \in PassableCells, s \in Phase1Calls :
                   \E i \in 1..(j - 1) : log[i] = <<c, s>>
            /\ \A i \in (j + 1)..Len(log) : log[i][2] \in Phase2Calls
            /\ pc \notin Phase1Positions

C1_Witness ==
    /\ \E j \in 1..Len(log) : log[j][2] = "animal_death"
    /\ \E id \in DOMAIN animals : hist[id].moves = 1

\* C2: every live animal occurs exactly once in the lists of the island, in
\* a list of its species, and the lists hold live animals only.
C2_ExactlyOneList ==
    /\ \A id \in DOMAIN animals : Occurrences(id) = 1
    /\ \A c \in PassableCells :
          /\ \A id \in Elems(island[c].herbivores) \cup Elems(island[c].migrated_herbivores) :
                id \in DOMAIN animals /\ animals[id].species = "Herbivore"
          /\ \A id \in Elems(island[c].carnivores) \cup Elems(island[c].migrated_carnivores) :
                id \in DOMAIN animals /\ animals[id].species = "Carnivore"

C2_Witness ==
    /\ \E c \in PassableCells : island[c].migrated_herbivores /= << >>
    /\ \E id \in DOMAIN animals : animals[id].age = 0

\* number of animals of a species on the island, resident or in transit
Total(isl, species) ==
    SumOver(PassableCells,
            [c \in PassableCells |->
                IF species = "Herbivore"
                THEN Len(isl[c].herbivores) + Len(isl[c].migrated_herbivores)
                ELSE Len(isl[c].carnivores) + Len(isl[c].migrated_carnivores)])

C4_MigratesAtMostOnce ==
    \A id \in DOMAIN hist : hist[id].moves <= 1

\* an animal that moved to a cell later in the traversal has been passed
\* over by that cell's migration
C4_Witness ==
    /\ pc = "animal_migration"
    /\ loop.i > Len(loop.items)
    /\ \E id \in Elems(island[Coordinate(cell)].migrated_herbivores) :
          hist[id].moves = 1

\* C5: an animal's age is its age at the start of the year (0 for an animal
\* born this year) until animal_aging has run in its cell, and exactly one
\* more from then on; hence after phase 2 every animal has aged by exactly 1.
C5_AgedExactlyOnce ==
    \A c \in PassableCells :
        \A id \in Residents(island[c]) \cup Transit(island[c]) :
            animals[id].age = hist[id].age0 + (IF Done(c, "animal_aging") THEN 1 ELSE 0)

\* the year is over; one animal has migrated and one was born this year
C5_Witness ==
    /\ pc = "end_of_year"
    /\ \E id \in DOMAIN animals : hist[id].moves = 1 /\ animals[id].age = 6
    /\ \E id \in DOMAIN animals : hist[id].age0 = 0 /\ animals[id].age = 1

\* C6: an animal that has migrated this year is resident only in a cell that
\* has finished its feeding, hunting and procreation of the year, so it takes
\* part in none of them in the cell it arrived in.
C6_MigrantTakesNoPart ==
    /\ \A c \in PassableCells :
          ~Done(c, "procreation") =>
              \A id \in Residents(island[c]) : hist[id].moves = 0
    /\ pc \in {"hunt", "herbivore_gives_birth", "carnivore_gives_birth"} =>
          \A id \in Elems(loop.items) : id \in DOMAIN hist => hist[id].moves = 0

\* a cell feeds while an animal that arrived this year waits in transit
C6_Witness ==
    /\ pc = "feed"
    /\ \E id \in Transit(island[Coordinate(cell)]) : hist[id].moves = 1

\* C7: no Water cell holds an animal in any of its lists, and no Water cell
\* runs a step of the year (in particular animal_migration).
C7_WaterHoldsNoAnimal ==
    /\ \A c \in WaterCells :
          (Residents(island[c]) \cup Transit(island[c])) \cap DOMAIN animals = {}
    /\ \A i \in 1..Len(log) : log[i][1] \in PassableCells
    /\ pc \in Phase1Positions \cup Phase2Calls => Coordinate(cell) \in PassableCells

\* the year has run to its end with an animal that has stayed in its cell,
\* after the migration of a cell next to Water
C7_Witness ==
    /\ pc = "end_of_year"
    /\ \E id \in DOMAIN animals : hist[id].moves = 0
    /\ \E c \in WaterCells : \E i \in 1..Len(log) :
          log[i][2] = "animal_migration" /\ c \in Elems(Adjacent(log[i][1][1], log[i][1][2]))

\* C8: the weight of every animal is >= 0.
C8_WeightNonNegative ==
    \A id \in DOMAIN animals : animals[id].weight >= 0

\* C9: an animal of weight 0 dies whatever the draw, and animal_death
\* removes every resident of weight 0 from its cell.
C9_ZeroWeightDies ==
    [][/\ \A id \in DOMAIN animals :
             animals[id].weight = 0 => \A draw \in Draws : dies(animals[id], draw)
       /\ pc = "animal_death" =>
             \A id \in Residents(island[Coordinate(cell)]) :
                 animals[id].weight = 0 =>
                     /\ id \notin DOMAIN animals'
                     /\ id \notin Residents(island'[Coordinate(cell)])]_vars

\* the death check reaches a resident of weight 0
C9_Witness ==
    /\ pc = "animal_death"
    /\ \E id \in Residents(island[Coordinate(cell)]) : animals[id].weight = 0

\* C10: whenever a step creates an animal or changes an animal's age or
\* weight, the animal's fitness afterwards is the fitness function of its
\* new age and weight.
C10_FitnessNeverStale ==
    [][\A id \in DOMAIN animals' :
          (\/ id \notin DOMAIN animals
           \/ animals'[id].age /= animals[id].age
           \/ animals'[id].weight /= animals[id].weight)
          => animals'[id].fitness = calculate_fitness(animals'[id]).fitness]_vars

\* a carnivore has made a kill (of a herbivore that had fed) and has aged
C10_Witness ==
    \E id \in DOMAIN animals :
        /\ animals[id].species = "Carnivore"
        /\ animals[id].age = 6
        /\ animals[id].weight > 20000

\* the positions of Geography.procreation at which gives_birth is called
BirthPositions == {"herbivore_gives_birth", "carnivore_gives_birth"}

\* C11: whenever gives_birth returns an offspring, the weight of the parent
\* after the birth plus the weight of the offspring is at most the weight of
\* the parent before the birth.
C11_BirthNeverAddsBiomass ==
    [][(pc \in BirthPositions /\ next_id' = next_id + 1) =>
          LET parent == loop.items[loop.i]
          IN  animals'[parent].weight + animals'[next_id'].weight
                  <= animals[parent].weight]_vars

\* a herbivore of weight 49 has given birth to one of weight 8
C11_Witness ==
    /\ pc = "herbivore_gives_birth"
    /\ loop.i > 1
    /\ \E id \in DOMAIN animals :
          /\ animals[id].age = 0
          /\ animals[id].weight = 8000
          /\ animals[loop.items[loop.i - 1]].weight = 41000

\* the state of one call of hunt after it has examined the first k herbivores
\* of the list (or has returned before): the call on the list's first k
HuntAfter(carnivore, herbivores, draws, k) ==
    hunt(animals[carnivore], SubSeq(herbivores, 1, k), animals, draws)

\* C12: for every list of herbivores and all draws, one call of hunt eats at
\* most F in total, credits the carnivore with beta * min(F - eaten_amount,
\* weight of the herbivore) at each kill, never lowers eaten_amount, and
\* examines no herbivore once eaten_amount has reached F.
C12_HuntWithinIntake ==
    (pc = "hunt" /\ loop.i <= Len(loop.items)) =>
        LET carnivore == loop.items[loop.i]
            herbivores == island[Coordinate(cell)].herbivores
            n == Len(herbivores)
            F == animals[carnivore].F
        IN  \A draws \in [1..n -> Draws] :
              /\ HuntAfter(carnivore, herbivores, draws, n).eaten_amount <= F
              /\ \A k \in 0..(n - 1) :
                   LET before == HuntAfter(carnivore, herbivores, draws, k)
                       after == HuntAfter(carnivore, herbivores, draws, k + 1)
                       herbivore == animals[herbivores[k + 1]]
                   IN  /\ after.dead_herbivores /= before.dead_herbivores =>
                             after.self.weight = before.self.weight +
                                 FMul(before.self.beta,
                                      Min(F - before.eaten_amount, herbivore.weight))
                       /\ after.eaten_amount >= before.eaten_amount
                       /\ before.eaten_amount >= F => after = before

\* the first loop (phase 1, which ends with the migration of the last cell)
\* of year y has run to its end
MigrationPhaseRun(y) ==
    \/ current_year > y
    \/ current_year = y /\ pc \notin Phase1Positions

Index(c) == (c[1] - 1) * Width + c[2]

FirstPassable == CHOOSE c \in PassableCells : \A d \in PassableCells : Index(c) <= Index(d)

LastPassable == CHOOSE c \in PassableCells : \A d \in PassableCells : Index(d) <= Index(c)

\* d is the passable cell visited next after the passable cell c
NextPassable(c, d) ==
    /\ d \in PassableCells
    /\ Index(c) < Index(d)
    /\ \A e \in PassableCells : ~(Index(c) < Index(e) /\ Index(e) < Index(d))

\* the call b may directly follow the call a in a year
Follows(a, b) ==
    LET c == a[1]
        s == a[2]
        d == b[1]
        t == b[2]
    IN  \/ /\ d = c
           /\ \/ s = "grow_fodder" /\ t = "feed"
              \/ s = "feed" /\ t = "random_carnivore_order"
              \/ s \in {"random_carnivore_order", "hunt"} /\ t \in {"hunt", "procreation"}
              \/ s = "procreation" /\ t = "animal_migration"
              \/ s = "migration_finished" /\ t = "animal_aging"
              \/ s = "animal_aging" /\ t = "animal_death"
        \/ /\ NextPassable(c, d)
           /\ \/ s = "animal_migration" /\ t = "grow_fodder"
              \/ s = "animal_death" /\ t = "migration_finished"
        \/ /\ c = LastPassable
           /\ d = FirstPassable
           /\ s = "animal_migration" /\ t = "migration_finished"

\* C14: in a year the calls run in a fixed order: for each passable cell in
\* row-major order grow_fodder, feeding, hunting, procreation, migration;
\* then, again for each passable cell in row-major order, migration_finished,
\* animal_aging, animal_death.
C14_FixedOrderOfSteps ==
    [][(log' /= log /\ log' /= << >>) =>
          /\ Len(log') = Len(log) + 1
          /\ SubSeq(log', 1, Len(log)) = log
          /\ IF log = << >>
             THEN log'[1] = <<FirstPassable, "grow_fodder">>
             ELSE Follows(log[Len(log)], log'[Len(log')])]_vars

\* a year has run to its end on both passable cells, with a hunt
C14_Witness ==
    /\ pc = "end_of_year"
    /\ log[Len(log)] = <<LastPassable, "animal_death">>
    /\ \E i \in 1..Len(log) : log[i] = <<FirstPassable, "hunt">>
    /\ FirstPassable /= LastPassable

\* the lists s and t hold the same values the same number of times
SameItems(s, t) ==
    /\ Len(s) = Len(t)
    /\ \A x \in Elems(s) \cup Elems(t) :
          Cardinality({i \in 1..Len(s) : s[i] = x}) =
          Cardinality({i \in 1..Len(t) : t[i] = x})

\* the last n values of a list
Last(list, n) == SubSeq(list, Len(list) - n + 1, Len(list))

\* C15: the statistics of the year for a cell (counts, weights, fitness,
\* ages) are those of its residents after its feeding, hunting and
\* procreation and before its migration: when the migration of the cell
\* starts, the values collected for the cell are the values of its residents.
C15_StatisticsBeforeMigration ==
    (pc = "animal_migration" /\ loop.i = 1) =>
        LET geography == island[Coordinate(cell)]
            nh == Len(geography.herbivores)
            nc == Len(geography.carnivores)
            w == get_weight_lists(geography, animals)
            f == get_fitness_lists(geography, animals)
            a == get_age_lists(geography, animals)
        IN  /\ stats.herb_pop[cell] = nh
            /\ stats.carn_pop[cell] = nc
            /\ SameItems(Last(stats.herb_weights, nh), w.herbivore_weights)
            /\ SameItems(Last(stats.carn_weights, nc), w.carnivore_weights)
            /\ SameItems(Last(stats.herb_fitness, nh), f.herbivore_fitness)
            /\ SameItems(Last(stats.carn_fitness, nc), f.carnivore_fitness)
            /\ SameItems(Last(stats.herb_age, nh), a.herbivore_age)
            /\ SameItems(Last(stats.carn_age, nc), a.carnivore_age)

\* the population the caller added last
LastAdded == Populations[added]

\* C16: adding a non-empty population to a Water cell fails with an error
\* raised to the caller, and the Water cell holds no animal afterwards.
C16_WaterPlacementFails ==
    added >= 1 =>
        \A i \in 1..Len(LastAdded) :
            (LastAdded[i].loc \in WaterCells /\ LastAdded[i].pop /= << >>) =>
                /\ exception /= "None"
                /\ island[LastAdded[i].loc].herbivores = NoneList
                /\ island[LastAdded[i].loc].carnivores = NoneList

\* C17: adding a description of a species other than Herbivore and Carnivore
\* to a passable cell fails with an error raised to the caller.
C17_UnknownSpeciesFails ==
    added >= 1 =>
        \A i \in 1..Len(LastAdded) :
            (/\ LastAdded[i].loc \in PassableCells
             /\ \E j \in 1..Len(LastAdded[i].pop) :
                   LastAdded[i].pop[j].species \notin {"Herbivore", "Carnivore"}) =>
                exception /= "None"

\* a map with lines of different lengths
Ragged(lines) == \E x \in 1..Len(lines) : Len(lines[x]) /= Len(lines[1])

\* a map with a letter outside L, H, D, W
UnknownLetter(lines) ==
    \E x \in 1..Len(lines) : \E y \in 1..Len(lines[x]) :
        lines[x][y] \notin {"L", "H", "D", "W"}

\* a map with a passable letter in its first or last line or at the start or
\* the end of a line
PassableBorder(lines) ==
    \E x \in 1..Len(lines) : \E y \in 1..Len(lines[x]) :
        /\ lines[x][y] \in {"L", "H", "D"}
        /\ x = 1 \/ x = Len(lines) \/ y = 1 \/ y = Len(lines[x])

\* C18: create_island raises an error and returns no island for every map
\* with lines of different lengths, with a letter outside L, H, D, W, or
\* with a passable letter on the first or last line or column.
C18_InvalidMapRaises ==
    (pc = "idle" /\ (Ragged(island_map) \/ UnknownLetter(island_map)
                        \/ PassableBorder(island_map))) =>
        /\ exception = "ValueError"
        /\ island = << >>

\* a map whose only fault is a passable letter at the end of its last line
C18_Witness ==
    /\ pc = "idle"
    /\ exception = "ValueError"
    /\ ~Ragged(island_map)
    /\ ~UnknownLetter(island_map)
    /\ Len(island_map) = 3
    /\ Len(island_map[1]) = 3
    /\ island_map[3][3] = "L"
    /\ \A x \in 1..2 : \A y \in 1..3 : island_map[x][y] = "W"

\* C19: in every island create_island returns all lines have the same
\* length and every border cell is impassable; hence the four neighbours of
\* every passable cell, the coordinates animal_migration looks up, are
\* coordinates of the island.
C19_ReturnedIslandIsClosed ==
    (pc = "idle" /\ exception = "None") =>
        LET rows == {c[1] : c \in DOMAIN island}
            cols == {c[2] : c \in DOMAIN island}
        IN  /\ DOMAIN island = rows \X cols
            /\ \A c \in DOMAIN island :
                  (\/ c[1] = 1 \/ c[1] = Cardinality(rows)
                   \/ c[2] = 1 \/ c[2] = Cardinality(cols)) => ~island[c].movable
            /\ \A c \in DOMAIN island :
                  island[c].movable =>
                      \A i \in 1..4 : Adjacent(c[1], c[2])[i] \in DOMAIN island

\* an island with a passable cell has been returned
C19_Witness ==
    /\ pc = "idle"
    /\ exception = "None"
    /\ island_map /= IslandMap
    /\ \E c \in DOMAIN island : island[c].movable /\ island[c].geography = "Desert"

\* the f_max attribute of a cell, None where the cell has none
F_max(geography) ==
    IF "f_max" \in DOMAIN geography THEN <<geography.f_max>> ELSE None

\* C20: a call of set_landscape_parameters with a code other than 'L' and 'H'
\* raises ValueError and leaves f_max of every cell of the island as it was.
C20_UnknownLandscapeRaises ==
    [][\A landscape \in LandscapeCodes \ {"L", "H"} : \A params \in LandscapeParams :
          SetLandscapeParameters(landscape, params) =>
              /\ exception' = "ValueError"
              /\ DOMAIN island' = DOMAIN island
              /\ \A c \in DOMAIN island : F_max(island'[c]) = F_max(island[c])]_vars

\* a call with an unknown code has raised on an island whose f_max had been
\* set by an earlier call with a known code
C20_Witness ==
    /\ exception = "ValueError"
    /\ \E c \in PassableCells : F_max(island[c]) = <<300000>>
    /\ \E c \in WaterCells : F_max(island[c]) = <<300000>>

\* the resource maximum of a terrain: the value passed to
\* set_landscape_parameters for its code last, its default before that
ResourceMaximum(geography) ==
    CASE geography = "Lowland" ->
             IF overrides.L = None THEN Lowland.f_max ELSE overrides.L[1]
      [] geography = "Highland" ->
             IF overrides.H = None THEN Highland.f_max ELSE overrides.H[1]
      [] geography = "Desert" -> 0

\* C21: grow_fodder leaves the fodder of the cell at the resource maximum of
\* its terrain: 800 for Lowland and 500 for Highland unless a value was set
\* for that terrain through set_landscape_parameters, and 0 for Desert.
C21_FodderGrowsToTerrainMaximum ==
    pc = "feed" =>
        island[Coordinate(cell)].fodder =
            ResourceMaximum(island[Coordinate(cell)].geography)

\* C22: set_animal_parameters(species, params) sets every parameter of params
\* on every animal of that species resident in a passable cell, and leaves
\* the animals of the other species as they were.
C22_ParametersSetForOneSpecies ==
    [][\A species \in SpeciesNames : \A params \in AnimalParams :
          SetAnimalParameters(species, params) =>
              \A c \in PassableCells : \A id \in Residents(island[c]) :
                  IF animals[id].species = species
                  THEN \A key \in DOMAIN params : animals'[id][key] = params[key]
                  ELSE animals'[id] = animals[id]]_vars

\* the parameters of the herbivores were set on an island that holds a
\* herbivore and a carnivore
C22_Witness ==
    /\ overrides.Herbivore /= << >>
    /\ overrides.Carnivore = << >>
    /\ \E h, c \in DOMAIN animals :
          /\ animals[h].species = "Herbivore"
          /\ animals[h].phi_age = 200
          /\ animals[c].species = "Carnivore"
          /\ animals[c].phi_age = 300

\* C23: the animals of one species share their parameters: every animal
\* carries the values set_animal_parameters was called with for its species,
\* whether it was on the island at the call or inserted or born after it.
C23_SpeciesShareParameters ==
    \A id \in DOMAIN animals :
        LET params == overrides[animals[id].species]
        IN  \A key \in DOMAIN params :
                key \in DOMAIN animals[id] /\ animals[id][key] = params[key]

\* the ages add_population is called with
InsertedAges == {Populations[k][1].pop[1].age : k \in 1..Len(Populations)}

\* C24: simulate runs all its years or has no effect.  A call that has raised
\* leaves the year counter and the animal lists as they were before it;
\* vis_years and img_years are fixed by the constructor, so that every
\* earlier call has raised as well and the state before the call is the one
\* add_population left: year 0, every inserted animal in its list, at the
\* age it was inserted with.
C24_SimulateAllOrNothing ==
    pc = "idle" =>
        /\ years_left = 0
        /\ exception = "ValueError" =>
              /\ current_year = 0
              /\ DOMAIN animals = 1..next_id
              /\ \A id \in DOMAIN animals : animals[id].age \in InsertedAges

\* the fodder in the cell when the k-th herbivore of the list feeds, if each
\* herbivore ahead of it has taken the smaller of its F and the fodder it found
RECURSIVE FodderFor(_, _, _)
FodderFor(herbivores, k, fodder) ==
    IF k = 1 THEN fodder
    ELSE LET available == FodderFor(herbivores, k - 1, fodder)
         IN  available - Min(available, animals[herbivores[k - 1]].F)

\* C26: Herbivore.feed consumes min(available fodder, F), which the cell
\* debits, and adds beta times the consumed amount to the weight of the
\* animal; its age stays.  Checked on every herbivore of the feeding cell, in
\* the order they feed in.
C26_FeedTakesMinimum ==
    [][pc = "feed" =>
          LET c == Coordinate(cell)
              herbivores == island'[c].herbivores
              n == Len(herbivores)
          IN  /\ \A k \in 1..n :
                    LET id == herbivores[k]
                        consumed == Min(FodderFor(herbivores, k, island[c].fodder),
                                        animals[id].F)
                    IN  /\ animals'[id].weight =
                               animals[id].weight + FMul(animals[id].beta, consumed)
                        /\ animals'[id].age = animals[id].age
              /\ island'[c].fodder = FodderFor(herbivores, n + 1, island[c].fodder)]_vars

\* a herbivore has fed from less fodder than its F, after another one
C26_Witness ==
    /\ pc = "random_carnivore_order"
    /\ island[<<2, 2>>].fodder = 0
    /\ Len(island[<<2, 2>>].herbivores) = 2
    /\ \E id \in DOMAIN animals :
          /\ animals[id].age = 5
          /\ animals[id].weight = 20000 + 4500

\* the descriptions of population for the list of species in cell c, in order
RECURSIVE Described(_, _, _)
Described(population, c, species) ==
    IF population = << >> THEN << >>
    ELSE (IF Head(population).loc = c
          THEN SelectSeq(Head(population).pop, LAMBDA d : d.species = species)
          ELSE << >>)
         \o Described(Tail(population), c, species)

\* the resident list of a species in a cell
ResidentList(geography, species) ==
    IF species = "Herbivore" THEN geography.herbivores ELSE geography.carnivores

\* the step has appended the animals population describes, and nothing else
Appended(population) ==
    /\ \A id \in DOMAIN animals : animals'[id] = animals[id]
    /\ \A c \in DOMAIN island :
          IF \E i \in 1..Len(population) : population[i].loc = c
          THEN \A species \in {"Herbivore", "Carnivore"} :
                  LET old == ResidentList(island[c], species)
                      new == ResidentList(island'[c], species)
                      d == Described(population, c, species)
                  IN  /\ Len(new) = Len(old) + Len(d)
                      /\ SubSeq(new, 1, Len(old)) = old
                      /\ \A j \in 1..Len(d) :
                            LET animal == animals'[new[Len(old) + j]]
                            IN  /\ animal.species = species
                                /\ animal.age = d[j].age
                                /\ animal.weight = d[j].weight
          ELSE island'[c] = island[c]

\* C27: add_population with locations on passable cells appends one animal
\* per description of a herbivore or carnivore, in the order of the
\* descriptions and with the described age and weight, to the resident list
\* of its species in the cell of its location, and changes no other cell.
C27_PopulationAppendedInOrder ==
    [][/\ \A ini_pop \in IniPops : AddIniPop(ini_pop) => Appended(ini_pop)
       /\ \A k \in 1..Len(Populations) :
             (AddPopulation(k) /\ Populations[k][1].loc \in PassableCells)
                 => Appended(Populations[k])]_vars

\* two herbivores were inserted in one call, and a third one after them
C27_Witness ==
    /\ Len(island[<<2, 2>>].herbivores) = 3
    /\ animals[island[<<2, 2>>].herbivores[1]].age = 3
    /\ animals[island[<<2, 2>>].herbivores[2]].age = 5
    /\ added = 1

\* C28: calculate_fitness is a pure recomputation: whenever it is called (on
\* its own or at the end of update_age) it completes, the fitness it stores
\* is 0 when weight <= 0 and in [0, 1] otherwise, a second call would store
\* the same value, and on its own it modifies no attribute but fitness.
C28_FitnessRecomputed ==
    [][(UpdateAge \/ CalculateFitness) =>
          LET self == animals'[1]
          IN  /\ exception' = "None"
              /\ self.fitness \in 0..Scale
              /\ self.weight <= 0 => self.fitness = 0
              /\ calculate_fitness(self) = self
              /\ CalculateFitness =>
                    [self EXCEPT !.fitness = 0] = [animals[1] EXCEPT !.fitness = 0]]_vars

\* the three conditions of a birth, for a parent, the argument N, the draw u
\* and the weight of the offspring
BirthConditions(parent, N, u, baby_weight) ==
    /\ Min(Scale, FMul(parent.gamma, parent.fitness) * (N - 1)) > u
    /\ parent.weight >= FMul(parent.zeta, parent.w_birth + parent.sigma_birth)
    /\ baby_weight <= parent.weight

\* C29: gives_birth returns an offspring only when the birth probability
\* min(1, gamma * fitness * (N - 1)) exceeds the draw, the parent weighs at
\* least zeta * (w_birth + sigma_birth) and the offspring weighs at most as
\* much as the parent; in every other case it returns nothing and leaves the
\* parent's weight, age and fitness as they were.
C29_BirthOnlyWhenAllThreeHold ==
    [][\A N \in BirthNs, u \in Draws, z \in BirthDeviates :
          GivesBirth(N, u, z) =>
              LET parent == animals[1]
                  baby_weight == gauss(parent.w_birth, parent.sigma_birth, z)
              IN  IF Len(animals') > Len(animals)
                  THEN BirthConditions(parent, N, u, baby_weight)
                  ELSE /\ ~BirthConditions(parent, N, u, baby_weight)
                       /\ animals'[1].weight = parent.weight
                       /\ animals'[1].age = parent.age
                       /\ animals'[1].fitness = parent.fitness]_vars

\* an animal that passed the first two conditions drew an offspring heavier
\* than itself and stayed alone
C29_Witness ==
    /\ log = <<<<<<2, 0, 2000>>, "gives_birth">>>>
    /\ Len(animals) = 1
    /\ animals[1].zeta = 1000
    /\ animals[1].weight = 10000
    /\ animals[1].species = "Herbivore"

\* the residents of list that are older than 0, in order
Candidates(list) == SelectSeq(list, LAMBDA id : animals[id].age /= 0)

\* the attempt of candidate i of a species in the running pass: old and new
\* are the resident list of the species before and after the step
Attempt(species, old, new) ==
    LET parent == loop.items[loop.i]
    IN  /\ loop.items = Candidates(old)
        /\ loop.N = Len(Candidates(old))
        /\ loop' = [loop EXCEPT !.i = loop.i + 1]
        /\ \A id \in DOMAIN animals : id /= parent => animals'[id] = animals[id]
        /\ \/ new = old /\ DOMAIN animals' = DOMAIN animals
           \/ /\ Len(new) = Len(old) + 1
              /\ SubSeq(new, 1, Len(old)) = old
              /\ new[Len(new)] \notin DOMAIN animals
              /\ DOMAIN animals' = DOMAIN animals \cup {new[Len(new)]}
              /\ animals'[new[Len(new)]].age = 0
              /\ animals'[new[Len(new)]].species = species
        /\ \E u \in Draws, z \in GaussDraws :
              LET r == IF species = "Herbivore"
                       THEN Herbivore_gives_birth(animals[parent], Len(Candidates(old)), u, z)
                       ELSE Carnivore_gives_birth(animals[parent], Len(Candidates(old)), u, z)
              IN  /\ animals'[parent] = r.self
                  /\ (new /= old) = (r.baby /= << >>)

\* C30: in one procreation pass of a cell the candidates of a species are its
\* residents of age /= 0, and N is their number, at the start of the loop over
\* the species and at every attempt (the offspring born in the pass, of age 0,
\* are not counted and do not breed); every step of the loop is the attempt
\* of the next candidate with that N, so that each candidate attempts once;
\* a newborn has age 0 and is appended to the list of its own species, the
\* other list is unchanged, and a list grows by at most one per candidate.
C30_ProcreationPass ==
    [][LET here == island[Coordinate(cell)]
           there == island'[Coordinate(cell)]
       IN  /\ Procreation =>
                 /\ loop'.items = Candidates(here.herbivores)
                 /\ loop'.N = Len(loop'.items)
                 /\ loop'.i = 1
           /\ CarnivoreProcreation =>
                 /\ loop'.items = Candidates(here.carnivores)
                 /\ loop'.N = Len(loop'.items)
                 /\ loop'.i = 1
                 /\ loop.i = Len(loop.items) + 1
           /\ HerbivoreGivesBirth =>
                 /\ Attempt("Herbivore", here.herbivores, there.herbivores)
                 /\ there.carnivores = here.carnivores
           /\ CarnivoreGivesBirth =>
                 /\ Attempt("Carnivore", here.carnivores, there.carnivores)
                 /\ there.herbivores = here.herbivores]_vars

\* both candidates have attempted with N = 2, one of them gave birth, and
\* the newborn is the last herbivore of the cell
C30_Witness ==
    /\ pc = "herbivore_gives_birth"
    /\ loop.N = 2
    /\ loop.i = 3
    /\ Len(island[<<2, 2>>].herbivores) = 3
    /\ animals[island[<<2, 2>>].herbivores[3]].age = 0
    /\ animals[island[<<2, 2>>].herbivores[3]].weight < 40000

\* C31: in every reachable state the fodder of a passable cell is at least 0
\* and at most the f_max of the cell (a Desert cell, which has no f_max,
\* holds no fodder).
C31_FodderWithinMaximum ==
    \A c \in DOMAIN island :
        island[c].movable =>
            /\ island[c].fodder >= 0
            /\ IF F_max(island[c]) = None THEN island[c].fodder = 0
               ELSE island[c].fodder <= island[c].f_max

\* the position of x in a list that holds it
Position(list, x) == CHOOSE i \in 1..Len(list) : list[i] = x

\* the fodder an animal has received in the step, from the weight it gained
Received(id) == FDiv(animals'[id].weight - animals[id].weight, animals[id].beta)

\* the sum of what the first k animals of a list have received in the step
RECURSIVE ReceivedUpTo(_, _)
ReceivedUpTo(list, k) ==
    IF k = 0 THEN 0 ELSE ReceivedUpTo(list, k - 1) + Received(list[k])

\* C32: the herbivores of a cell feed in the order of descending fitness as it
\* was before feeding, animals of equal fitness in the order of their
\* insertion; a herbivore that receives less than its F receives what those
\* ahead of it in that order have left, and every herbivore behind it
\* receives 0.
C32_FeedInOrderOfFitness ==
    [][pc = "feed" =>
          LET c == Coordinate(cell)
              before == island[c].herbivores
              order == island'[c].herbivores
              n == Len(order)
          IN  /\ Len(before) = n
              /\ Elems(before) = Elems(order)
              /\ \A i, j \in 1..n :
                    i < j =>
                       \/ animals[order[i]].fitness > animals[order[j]].fitness
                       \/ /\ animals[order[i]].fitness = animals[order[j]].fitness
                          /\ Position(before, order[i]) < Position(before, order[j])
              /\ \A k \in 1..n :
                    Received(order[k]) < animals[order[k]].F =>
                       /\ ReceivedUpTo(order, k) = island[c].fodder
                       /\ \A j \in (k + 1)..n : Received(order[j]) = 0]_vars

\* the herbivore inserted second was the fitter one: it has fed first and in
\* full, and the one inserted first has received the 5 units left
C32_Witness ==
    /\ pc = "random_carnivore_order"
    /\ island[<<2, 2>>].herbivores = <<2, 1>>
    /\ animals[2].weight = 49000
    /\ animals[1].weight = 24500

\* the rule of a kill: never when the herbivore is at least as fit as the
\* carnivore, always when it is less fit by DeltaPhiMax or more, and else when
\* the draw is below the difference divided by DeltaPhiMax
KillRule(self, herbivore, draw) ==
    IF self.fitness <= herbivore.fitness THEN FALSE
    ELSE IF self.fitness - herbivore.fitness >= self.DeltaPhiMax THEN TRUE
    ELSE draw * self.DeltaPhiMax < (self.fitness - herbivore.fitness) * Scale

C34_RemovedWhenHuntingCompletes ==
    [][(pc = "hunt" /\ loop.i <= Len(loop.items)) =>
          LET c == Coordinate(cell)
          IN  /\ loop.i < Len(loop.items) =>
                    island'[c].herbivores = island[c].herbivores
              /\ loop.i = Len(loop.items) =>
                    \A id \in Elems(island'[c].herbivores) : id \in DOMAIN animals']_vars

\* C34, amended: the herbivores a carnivore has killed are removed from the
\* list of the cell when its hunt has returned, ahead of the hunt of the next
\* carnivore: after every hunt the list is the list before it without the
\* herbivores that hunt returned, in the same order, and no killed herbivore
\* is left in it.
C34_RemovedAfterEachHunt ==
    [][(pc = "hunt" /\ loop.i <= Len(loop.items)) =>
          LET c == Coordinate(cell)
              carnivore == loop.items[loop.i]
              before == island[c].herbivores
              after == island'[c].herbivores
          IN  /\ \E draws \in [1..Len(before) -> Draws] :
                    LET dead_herbivores ==
                            hunt(animals[carnivore], before, animals, draws).dead_herbivores
                    IN  /\ after = SelectSeq(before,
                                             LAMBDA id : ~InList(id, dead_herbivores))
                        /\ DOMAIN animals' = DOMAIN animals \ Elems(dead_herbivores)
              /\ \A id \in Elems(after) : id \in DOMAIN animals']_vars

\* the first of two carnivores has hunted and killed one of two herbivores,
\* which the second carnivore does not find in the list
C34_Witness ==
    /\ pc = "hunt"
    /\ Len(loop.items) = 2
    /\ loop.i = 2
    /\ next_id = 4
    /\ Len(island[<<2, 2>>].herbivores) = 1

\* the step has moved animal id from the cell at from to the cell at to: it
\* is off the resident list of its species at from, the last of the transit
\* list of its species at to, and nothing else has changed
Migrated(id, from, to) ==
    LET resident == IF animals[id].species = "Herbivore"
                    THEN "herbivores" ELSE "carnivores"
        transit == IF animals[id].species = "Herbivore"
                   THEN "migrated_herbivores" ELSE "migrated_carnivores"
    IN  /\ InList(id, island[from][resident])
        /\ island'[from][resident] =
               SelectSeq(island[from][resident], LAMBDA x : x /= id)
        /\ island'[to][transit] = Append(island[to][transit], id)
        /\ \A c \in DOMAIN island : \A f \in DOMAIN island[c] :
              (<<c, f>> /= <<from, resident>> /\ <<c, f>> /= <<to, transit>>)
                  => island'[c][f] = island[c][f]

\* C35: in animal_migration an animal leaves its cell only for one of the
\* four cells next to it in a row or a column, only if that cell is passable
\* and a draw is below mu * fitness; it is then removed from the resident list
\* of its cell and appended to the transit list of its species in the other
\* cell.  In every other case, so when the neighbour chosen is impassable,
\* no list of any cell changes.
C35_MigrationToPassableNeighbour ==
    [][(pc = "animal_migration" /\ loop.i <= Len(loop.items)) =>
          LET here == Coordinate(cell)
              id == loop.items[loop.i]
              neighbours == {<<here[1] + 1, here[2]>>, <<here[1] - 1, here[2]>>,
                             <<here[1], here[2] + 1>>, <<here[1], here[2] - 1>>}
          IN  \/ island' = island
              \/ \E to \in neighbours, draw \in Draws :
                    /\ island[to].movable
                    /\ draw * Scale < animals[id].mu * animals[id].fitness
                    /\ Migrated(id, here, to)]_vars

\* of two herbivores in the Highland cell the fit one has moved to the
\* Lowland cell, and the one with fitness 0 has stayed
C35_Witness ==
    /\ pc = "animal_migration"
    /\ loop.i = 3
    /\ island[<<2, 2>>].migrated_herbivores = <<1>>
    /\ island[<<2, 3>>].herbivores = <<2>>
    /\ animals[2].fitness = 0

\* BioSim.num_animals
num_animals(isl) ==
    LET movable == {c \in DOMAIN isl : isl[c].movable}
    IN  SumOver(movable,
                [c \in movable |-> Len(isl[c].herbivores) + Len(isl[c].carnivores)])

\* C36: migration_finished leaves each resident list of the cell as the list
\* it was followed by the transit list of the same species, and both transit
\* lists empty; when a simulated year is complete every transit list of
\* every passable cell is empty, and the resident lists hold as many animals
\* as are alive.
C36_ArrivalsJoinResidents ==
    [][/\ pc = "migration_finished" =>
             LET before == island[Coordinate(cell)]
                 after == island'[Coordinate(cell)]
             IN  /\ after.herbivores = before.herbivores \o before.migrated_herbivores
                 /\ after.carnivores = before.carnivores \o before.migrated_carnivores
                 /\ after.migrated_herbivores = << >>
                 /\ after.migrated_carnivores = << >>
       /\ pc' = "end_of_year" =>
             /\ \A c \in DOMAIN island' :
                   island'[c].movable =>
                      /\ island'[c].migrated_herbivores = << >>
                      /\ island'[c].migrated_carnivores = << >>
             /\ num_animals(island') = Cardinality(DOMAIN animals')
             /\ \A id \in DOMAIN animals' :
                   \E c \in DOMAIN island' :
                      island'[c].movable /\ id \in Residents(island'[c])]_vars

\* two herbivores have arrived in the Highland cell in one year and stand
\* behind its resident, in the order of their arrival
C36_Witness ==
    /\ pc = "animal_aging"
    /\ Coordinate(cell) = <<2, 3>>
    /\ Len(island[<<2, 3>>].herbivores) = 3
    /\ hist[island[<<2, 3>>].herbivores[1]].moves = 0
    /\ hist[island[<<2, 3>>].herbivores[2]].moves = 1
    /\ hist[island[<<2, 3>>].herbivores[3]].moves = 1
    /\ island[<<2, 3>>].herbivores[2] < island[<<2, 3>>].herbivores[3]

\* C37: animal_death makes one death check for each resident of the cell,
\* herbivores first, and removes the residents whose check was true (weight 0,
\* or omega * (1 - fitness) above the draw of the check) and no other; the
\* residents that stay keep their order, and the transit lists of the cell
\* and all other cells stay as they were.
C37_DeathRemovesExactlyTheDead ==
    [][pc = "animal_death" =>
          LET c == Coordinate(cell)
              herbivores == island[c].herbivores
              carnivores == island[c].carnivores
              chain == herbivores \o carnivores
          IN  /\ \E draws \in [1..Len(chain) -> Draws] :
                    LET dead == {chain[i] : i \in
                                   {j \in 1..Len(chain) :
                                      \/ animals[chain[j]].weight = 0
                                      \/ FMul(animals[chain[j]].omega,
                                              Scale - animals[chain[j]].fitness)
                                             > draws[j]}}
                    IN  /\ island'[c].herbivores =
                               SelectSeq(herbivores, LAMBDA id : id \notin dead)
                        /\ island'[c].carnivores =
                               SelectSeq(carnivores, LAMBDA id : id \notin dead)
                        /\ DOMAIN animals' = DOMAIN animals \ dead
              /\ island'[c].migrated_herbivores = island[c].migrated_herbivores
              /\ island'[c].migrated_carnivores = island[c].migrated_carnivores
              /\ \A d \in DOMAIN island : d /= c => island'[d] = island[d]
              /\ \A id \in DOMAIN animals' : animals'[id] = animals[id]]_vars

\* of three residents the second, of weight 0, has died, the two others have
\* stayed in their order, and an animal waits in a transit list of the other
\* cell
C37_Witness ==
    /\ pc = "migration_finished"
    /\ island[<<2, 2>>].herbivores = <<1, 3>>
    /\ 2 \notin DOMAIN animals
    /\ island[<<2, 3>>].migrated_herbivores = <<4>>

\* the terrain set_landscape_parameters names by its code
Terrain(landscape) ==
    CASE landscape = "L" -> "Lowland"
      [] landscape = "H" -> "Highland"
      [] OTHER -> "None"

\* C38: set_landscape_parameters(code, params) changes the resource maximum of
\* the cells of the terrain the code names and of no other cell: a call with
\* 'L' leaves f_max of every Highland cell as it was, a call with 'H' leaves
\* f_max of every Lowland cell as it was, and the fodder a cell grows in a
\* later year is the maximum of its own terrain whatever was set for the other.
C38_OtherTerrainUnaffected ==
    [][/\ \A landscape \in {"L", "H"} : \A params \in LandscapeParams :
             SetLandscapeParameters(landscape, params) =>
                 \A c \in DOMAIN island :
                    island[c].geography /= Terrain(landscape) =>
                        F_max(island'[c]) = F_max(island[c])
       /\ \A c \in DOMAIN island :
             /\ pc' = "feed"
             /\ c = Coordinate(cell')
             /\ island[c].geography = "Highland"
             /\ overrides.H = None
             => island'[c].fodder = Highland.f_max]_vars

\* C39: in the hunting of a cell a herbivore is killed by one carnivore at
\* most.  The list a carnivore is offered holds live herbivores alone, each
\* once; the herbivores its hunt returns are distinct and each is in the list
\* once when herbivores_eaten removes it, so that no removal fails; after the
\* removal none of them is in the list, which has lost as many entries as
\* herbivores were killed and gained none, so that no later carnivore of the
\* cell is offered a herbivore killed before.
C39_KilledOnceRemovedOnce ==
    [][(pc = "hunt" /\ loop.i <= Len(loop.items)) =>
          LET c == Coordinate(cell)
              carnivore == loop.items[loop.i]
              before == island[c].herbivores
              after == island'[c].herbivores
          IN  /\ \A id \in Elems(before) :
                    id \in DOMAIN animals /\ Count(before, id) = 1
              /\ \E draws \in [1..Len(before) -> Draws] :
                    LET r == hunt(animals[carnivore], before, animals, draws)
                        dead_herbivores == r.dead_herbivores
                    IN  /\ animals'[carnivore] = r.self
                        /\ \A id \in Elems(dead_herbivores) :
                              /\ Count(dead_herbivores, id) = 1
                              /\ Count(before, id) = 1
                              /\ Count(after, id) = 0
                              /\ id \notin DOMAIN animals'
                        /\ Len(after) = Len(before) - Len(dead_herbivores)
              /\ Elems(after) \subseteq Elems(before)]_vars

\* both carnivores of a cell with three herbivores have hunted, each has
\* killed and gained weight, and no herbivore is left in the list
C39_Witness ==
    /\ pc = "hunt"
    /\ Len(loop.items) = 2
    /\ loop.i = 3
    /\ next_id = 5
    /\ island[<<2, 2>>].herbivores = << >>
    /\ animals[4].weight > 20000
    /\ animals[5].weight > 20000

\* the fitness function of the animal's age, weight and constants is what
\* the animal holds as its fitness
FitnessCurrent(id) == animals[id].fitness = calculate_fitness(animals[id]).fitness

\* C40: once set_animal_parameters has changed a constant of the fitness
\* function, every animal whose fitness is read next (by hunt of the carnivore
\* and of the herbivores of its cell, by gives_birth of the parent, by moves of
\* the migrating animal, by dies of the residents of the cell) holds the
\* fitness function of its attributes for the new constants.
C40_FitnessCurrentWhenRead ==
    /\ (pc = "hunt" /\ loop.i <= Len(loop.items)) =>
           /\ FitnessCurrent(loop.items[loop.i])
           /\ \A id \in Elems(island[Coordinate(cell)].herbivores) : FitnessCurrent(id)
    /\ (pc \in BirthPositions /\ loop.i <= Len(loop.items)) =>
           FitnessCurrent(loop.items[loop.i])
    /\ (pc = "animal_migration" /\ loop.i <= Len(loop.items)) =>
           FitnessCurrent(loop.items[loop.i])
    /\ pc = "animal_death" =>
           \A id \in Residents(island[Coordinate(cell)]) : FitnessCurrent(id)

====
